---- MODULE Spec2Model ----
(***************************************************************************)
(* A model of the cass ingestion-and-search core:                          *)
(*   - the model-asset downloader   (src/src/search/model_download.rs)     *)
(*   - the search client            (src/src/search/query.rs)              *)
(*   - the connectors               (src/src/connectors/*.rs)              *)
(*   - the remote sync engine       (src/src/sources/sync.rs)              *)
(*   - the inverted index on disk   (src/src/search/tantivy.rs)            *)
(*   - the sync status file         (src/src/sources/sync.rs)              *)
(* Each subsystem has its own specification (SpecDownload, SpecSearch,     *)
(* SpecDedup, SpecConnectors, SpecFixtures, SpecSync, SpecIndex,           *)
(* SpecStatus); the variables of the other subsystems stay at their        *)
(* initial value.                                                          *)
(***************************************************************************)
EXTENDS Integers, Sequences, FiniteSets, TLC

VARIABLES
    \* ---- downloader (model_download.rs) ----
    pc,               \* position of the thread running download()
    cancelled,        \* ModelDownloader.cancelled (Arc<AtomicBool>)
    modelState,       \* the ModelState the caller holds for the model
    target,           \* the target directory
    tempExists,       \* whether the temporary download directory exists
    tempFiles,        \* the files of the temporary download directory
    idx,              \* download(): index of the current manifest file (1-based)
    attempt,          \* download(): the retry loop's counter
    last_error,       \* download(): last_error ("none" for None)
    bytes_downloaded, \* download(): the atomic byte counter
    bytes_before_file,\* download(): its value when the current file started
    dfExisting,       \* download_file(): existing_size
    resp,             \* download_file(): the response being streamed
    result,           \* what download() returned ("none" while it runs)
    runs,             \* number of download() invocations so far
    netlog,           \* history: the requests sent by the current download_file call
    sleeps,           \* history: the backoff delays slept for the current file
    hist,             \* history of the current download() call
    \* ---- search client (query.rs) ----
    sqliteRows,       \* the relational backend's matches of the query, in ORDER BY score order
    tantivyDocs,      \* the inverted index's matches of the query, in TopDocs order
    hasSqlite,        \* SearchClient.sqlite is Some
    hasReader,        \* SearchClient.reader is Some
    queryEmpty,       \* the sanitized query is blank
    call,             \* the last call made on the client and its arguments
    page,             \* what search(query, no filters, limit, 0) returned
    pageMore,         \* what search(query, no filters, limit + more, 0) returned
    dedupOut,         \* what deduplicate_hits returned
    \* ---- connectors (connectors/*.rs) ----
    agent,            \* the connector that scans the source root
    now,              \* the latest modification time of an artifact of the root
    codexHome,        \* the rollout files under <codex home>/sessions
    aiderRoot,        \* the transcript files under the data root
    clineRoot,        \* the task directories of the storage root
    cursorBase,       \* the state.vscdb files of the Cursor base directory
    ctx,              \* the ScanContext of the scan observed
    scanOut,          \* what scan(ctx) returned
    harness,          \* who calls scan: the indexer, or a test over fixture roots
    unreadable,       \* the artifacts whose text cannot be read
    \* ---- remote sync engine (sources/sync.rs) ----
    sources,          \* the sources handed to sync_all
    hasRsync,         \* environment: `rsync --version` succeeds
    fault,            \* environment: what a failing step fails with
    syncPc,           \* position of the thread running sync_all
    srcIdx,           \* sync_all: index of the current source (1-based)
    pathIdx,          \* sync_source: index of the current path (1-based)
    remote_home,      \* sync_source: remote_home (NoHome when absent)
    lookups,          \* history: get_remote_home calls of the current sync_source
    report,           \* sync_source: the report being filled
    reports,          \* sync_all: the reports collected so far
    mirror,           \* the files under {local_store}/remotes/*/mirror/*
    cmd,              \* history: the arguments of the last transfer command
    \* ---- inverted index on disk (search/tantivy.rs), SearchClient::open ----
    indexDir,         \* the index directory: sentinel, meta.json, committed documents
    handle,           \* the TantivyIndex the indexer holds, with its writer
    ooc,              \* history: the last open_or_create call
    dbPath,           \* the db_path handed to SearchClient::open
    dbFile,           \* what is at db_path
    client,           \* what SearchClient::open returned, and what it found
    \* ---- sync status (sources/sync.rs, SyncStatus) ----
    syncStatus,       \* SyncStatus.sources: the entry of each source name
    statusReport,     \* the SyncReport the caller of update is holding
    statusPc,         \* the caller: before a report, building it, after update
    updateCall        \* history: the last update call and the status before it

dlVars == <<pc, cancelled, modelState, target, tempExists, tempFiles, idx, attempt,
            last_error, bytes_downloaded, bytes_before_file, dfExisting, resp,
            result, runs, netlog, sleeps, hist>>

srVars == <<sqliteRows, tantivyDocs, hasSqlite, hasReader, queryEmpty, call, page,
            pageMore, dedupOut>>

cnVars == <<agent, now, codexHome, aiderRoot, clineRoot, cursorBase, ctx, scanOut,
            harness, unreadable>>

syVars == <<sources, hasRsync, fault, syncPc, srcIdx, pathIdx, remote_home, lookups,
            report, reports, mirror, cmd>>

ixVars == <<indexDir, handle, ooc, dbPath, dbFile, client>>

stVars == <<syncStatus, statusReport, statusPc, updateCall>>

vars == <<dlVars, srVars, cnVars, syVars, ixVars, stVars>>

\* what the downloader's steps leave alone
DlFrame == UNCHANGED <<srVars, cnVars, syVars, ixVars, stVars>>

\* what the search client's calls leave alone
SrFrame == UNCHANGED <<dlVars, cnVars, syVars, ixVars, stVars>>

\* what the connectors leave alone
CnFrame == UNCHANGED <<dlVars, srVars, syVars, ixVars, stVars>>

\* what the sync engine leaves alone
SyFrame == UNCHANGED <<dlVars, srVars, cnVars, ixVars, stVars>>

\* what the index directory's operations leave alone
IxFrame == UNCHANGED <<dlVars, srVars, cnVars, syVars, stVars>>

\* what the sync status leaves alone
StFrame == UNCHANGED <<dlVars, srVars, cnVars, syVars, ixVars>>

(***************************************************************************)
(* Bounds of the downloader model.                                         *)
(***************************************************************************)
\* size of the first manifest file, in 8 KiB reads (the other files take one read)
MaxChunks == 2
\* number of download() invocations explored
MaxRuns == 2

(***************************************************************************)
(* The manifest (ModelManifest::minilm_v2): three files; sizes are scaled  *)
(* to a number of 8 KiB reads.                                             *)
(***************************************************************************)
ManifestFiles == <<"model.onnx", "tokenizer.json", "config.json">>

NFiles == Len(ManifestFiles)

FileSize(i) == IF i = 1 THEN MaxChunks ELSE 1

RECURSIVE SumSizes(_)
SumSizes(n) == IF n = 0 THEN 0 ELSE FileSize(n) + SumSizes(n - 1)

total_size == SumSizes(NFiles)

max_retries == 3

\* the statuses a server may answer with
StatusCodes == {200, 203, 206, 404}

NoFile == [present |-> FALSE, size |-> 0, good |-> TRUE]

NoResp == [status |-> 0, left |-> 0, corrupt |-> FALSE]

NoTarget == [exists |-> FALSE, files |-> {}, verified |-> "none", bundle |-> "none"]

ReadyTarget(rev) ==
    [exists |-> TRUE, files |-> {ManifestFiles[i] : i \in 1..NFiles},
     verified |-> rev, bundle |-> rev]

(***************************************************************************)
(* check_model_installed: the target is a directory, holds the .verified   *)
(* marker and each required file.                                          *)
(***************************************************************************)
RequiredFiles == {"model.onnx", "tokenizer.json", "config.json"}

check_model_installed(dir) ==
    IF ~dir.exists THEN "NotInstalled"
    ELSE IF dir.verified = "none" THEN "NotInstalled"
    ELSE IF ~(RequiredFiles \subseteq dir.files) THEN "NotInstalled"
    ELSE "Ready"

\* a verification that accepts whatever file is present
HashMatches_present(f, i) == f.present

\* compute_sha256(file) = manifest digest: the file holds exactly the published bytes
HashMatches(f, i) == f.present /\ f.size = FileSize(i) /\ f.good

NoHist == [cancelSignalled |-> FALSE, wasReady |-> FALSE, reqInNeedsConsent |-> FALSE,
           targetBefore |-> NoTarget]

DlInitFixed ==
    /\ pc = "idle"
    /\ cancelled = FALSE
    /\ tempExists = FALSE
    /\ tempFiles = [i \in 1..NFiles |-> NoFile]
    /\ idx = 1
    /\ attempt = 0
    /\ last_error = "none"
    /\ bytes_downloaded = 0
    /\ bytes_before_file = 0
    /\ dfExisting = 0
    /\ resp = NoResp
    /\ result = "none"
    /\ runs = 0
    /\ netlog = <<>>
    /\ sleeps = <<>>
    /\ hist = NoHist

\* the downloader at rest, for the specifications of the other subsystems
DlIdle ==
    /\ DlInitFixed
    /\ target = NoTarget
    /\ modelState = "NotInstalled"

\* ModelDownloader::new over a target that is absent or holds a verified bundle;
\* the temporary directory may hold a partial first file of an interrupted run.
DlInit ==
    /\ pc = "idle"
    /\ cancelled = FALSE
    /\ target \in {NoTarget, ReadyTarget("old")}
    /\ modelState = check_model_installed(target)
    /\ \E e \in 0..MaxChunks :
          /\ tempExists = (e > 0)
          /\ tempFiles = [i \in 1..NFiles |->
                IF i = 1 /\ e > 0 THEN [present |-> TRUE, size |-> e, good |-> TRUE]
                ELSE NoFile]
    /\ idx = 1
    /\ attempt = 0
    /\ last_error = "none"
    /\ bytes_downloaded = 0
    /\ bytes_before_file = 0
    /\ dfExisting = 0
    /\ resp = NoResp
    /\ result = "none"
    /\ runs = 0
    /\ netlog = <<>>
    /\ sleeps = <<>>
    /\ hist = NoHist


(***************************************************************************)
(* The lifecycle the caller follows (ModelState's documented transitions): *)
(* NotInstalled -> NeedsConsent on invocation, NeedsConsent -> Downloading *)
(* on consent, NeedsConsent -> Disabled when the user declines.            *)
(***************************************************************************)
dlRest == <<pc, cancelled, target, tempExists, tempFiles, idx, attempt, last_error,
            bytes_downloaded, bytes_before_file, dfExisting, resp, result, runs,
            netlog, sleeps, hist>>

RequestModel ==
    /\ DlFrame
    /\ modelState \in {"NotInstalled", "Cancelled", "VerificationFailed"}
    /\ modelState' = "NeedsConsent"
    /\ UNCHANGED dlRest

GrantConsent ==
    /\ DlFrame
    /\ modelState = "NeedsConsent"
    /\ modelState' = "Downloading"
    /\ UNCHANGED dlRest

DeclineConsent ==
    /\ DlFrame
    /\ modelState = "NeedsConsent"
    /\ modelState' = "Disabled"
    /\ UNCHANGED dlRest

(***************************************************************************)
(* ModelDownloader::cancel (also a store through cancellation_handle()).   *)
(* The history records whether the signal came after download() was        *)
(* invoked and before the last file's verification started.                *)
(***************************************************************************)
InCancelWindow ==
    \/ pc \in {"entry", "file_start", "attempt_start", "df_start", "df_send", "df_loop",
               "after_retries", "verify"}
    \/ pc = "hash" /\ idx < NFiles

cancel ==
    /\ DlFrame
    /\ cancelled' = TRUE
    /\ hist' = [hist EXCEPT !.cancelSignalled = @ \/ InCancelWindow]
    /\ UNCHANGED <<pc, modelState, target, tempExists, tempFiles, idx, attempt, last_error,
                   bytes_downloaded, bytes_before_file, dfExisting, resp, result, runs,
                   netlog, sleeps>>

(***************************************************************************)
(* download(): the call.  Nothing in download() reads the lifecycle state. *)
(***************************************************************************)
download ==
    /\ DlFrame
    /\ pc = "idle"
    /\ runs < MaxRuns
    /\ pc' = "entry"
    /\ runs' = runs + 1
    /\ result' = "none"
    /\ hist' = [cancelSignalled |-> FALSE,
                wasReady |-> (check_model_installed(target) = "Ready"),
                reqInNeedsConsent |-> FALSE,
                targetBefore |-> target]
    /\ UNCHANGED <<cancelled, modelState, target, tempExists, tempFiles, idx, attempt,
                   last_error, bytes_downloaded, bytes_before_file, dfExisting, resp,
                   netlog, sleeps>>

\* download() returns err; cleanup_temp() runs first where the code calls it
Return(err, cleanup) ==
    /\ pc' = "done"
    /\ result' = err
    /\ IF cleanup
       THEN /\ tempExists' = FALSE
            /\ tempFiles' = [i \in 1..NFiles |-> NoFile]
       ELSE UNCHANGED <<tempExists, tempFiles>>

\* lines 346-354: reset the flag, create the temporary directory
download_entry ==
    /\ DlFrame
    /\ pc = "entry"
    /\ cancelled' = FALSE
    /\ \/ /\ tempExists' = TRUE
          /\ pc' = "file_start"
          /\ idx' = 1
          /\ bytes_downloaded' = 0
          /\ UNCHANGED <<tempFiles, result>>
       \/ /\ Return("IoError", FALSE)
          /\ UNCHANGED <<idx, bytes_downloaded>>
    /\ UNCHANGED <<modelState, target, attempt, last_error, bytes_before_file, dfExisting,
                   resp, runs, netlog, sleeps, hist>>

\* lines 356-369: the head of the loop over the manifest's files
download_file_start ==
    /\ DlFrame
    /\ pc = "file_start"
    /\ IF idx > NFiles
       THEN /\ pc' = "install_remove"
            /\ UNCHANGED <<tempExists, tempFiles, result, bytes_before_file, last_error,
                           attempt, sleeps>>
       ELSE IF cancelled
       THEN /\ Return("Cancelled", TRUE)
            /\ UNCHANGED <<bytes_before_file, last_error, attempt, sleeps>>
       ELSE /\ pc' = "attempt_start"
            /\ bytes_before_file' = bytes_downloaded
            /\ last_error' = "none"
            /\ attempt' = 0
            /\ sleeps' = <<>>
            /\ UNCHANGED <<tempExists, tempFiles, result>>
    /\ UNCHANGED <<cancelled, modelState, target, idx, bytes_downloaded, dfExisting, resp,
                   runs, netlog, hist>>

Pow2(n) == IF n = 0 THEN 1 ELSE IF n = 1 THEN 2 ELSE IF n = 2 THEN 4 ELSE 8

\* line 383: Duration::from_secs(5 * (1 << (attempt - 1)))
BackoffDelay(a) == 5 * Pow2(a - 1)

\* lines 370-385: the head of the retry loop
download_attempt_start ==
    /\ DlFrame
    /\ pc = "attempt_start"
    /\ IF attempt >= max_retries
       THEN /\ pc' = "after_retries"
            /\ UNCHANGED <<tempExists, tempFiles, result, bytes_downloaded, sleeps>>
       ELSE IF cancelled
       THEN /\ Return("Cancelled", TRUE)
            /\ UNCHANGED <<bytes_downloaded, sleeps>>
       ELSE /\ pc' = "df_start"
            /\ bytes_downloaded' = IF attempt > 0 THEN bytes_before_file ELSE bytes_downloaded
            /\ sleeps' = IF attempt > 0 THEN Append(sleeps, BackoffDelay(attempt)) ELSE sleeps
            /\ UNCHANGED <<tempExists, tempFiles, result>>
    /\ UNCHANGED <<cancelled, modelState, target, idx, attempt, last_error,
                   bytes_before_file, dfExisting, resp, runs, netlog, hist>>

\* lines 397-404: what the retry loop does with download_file's result
AttemptOk ==
    /\ last_error' = "none"
    /\ pc' = "verify"
    /\ UNCHANGED attempt

AttemptErr(e) ==
    /\ last_error' = e
    /\ attempt' = attempt + 1
    /\ pc' = "attempt_start"

\* lines 407-410
download_after_retries ==
    /\ DlFrame
    /\ pc = "after_retries"
    /\ IF last_error # "none"
       THEN Return(last_error, TRUE)
       ELSE /\ pc' = "verify"
            /\ UNCHANGED <<tempExists, tempFiles, result>>
    /\ UNCHANGED <<cancelled, modelState, target, idx, attempt, last_error,
                   bytes_downloaded, bytes_before_file, dfExisting, resp, runs, netlog,
                   sleeps, hist>>


(***************************************************************************)
(* download_file(): lines 451-477, the existing partial and the request.   *)
(***************************************************************************)
existing_size(f) == IF f.present THEN f.size ELSE 0

download_file_begin ==
    /\ DlFrame
    /\ pc = "df_start"
    /\ netlog' = <<>>
    /\ LET e == existing_size(tempFiles[idx]) IN
       /\ dfExisting' = e
       /\ IF e = FileSize(idx)
          THEN \* already complete: count it and skip the request
               /\ bytes_downloaded' = bytes_downloaded + FileSize(idx)
               /\ AttemptOk
          ELSE /\ bytes_downloaded' = IF e > 0 THEN bytes_downloaded + e ELSE bytes_downloaded
               /\ pc' = "df_send"
               /\ UNCHANGED <<last_error, attempt>>
    /\ UNCHANGED <<cancelled, modelState, target, tempExists, tempFiles, idx,
                   bytes_before_file, resp, result, runs, sleeps, hist>>

\* the Range header of the request: bytes=<existing_size>- when resuming, none (-1) otherwise
RangeHeader(e) == IF e > 0 THEN e ELSE -1

\* the length of the body the server sends: the rest of the file for 206, the file otherwise
BodyLength(status, e, i) == IF status = 206 THEN FileSize(i) - e ELSE FileSize(i)

\* a destination opened with truncate(true) whatever the server answered
open_destination_truncate(f, resuming) == [present |-> TRUE, size |-> 0, good |-> TRUE]

\* lines 496-502: OpenOptions create, append(actually_resuming), truncate(!actually_resuming)
open_destination(f, resuming) ==
    IF resuming THEN [f EXCEPT !.present = TRUE]
    ELSE [present |-> TRUE, size |-> 0, good |-> TRUE]

\* lines 479-505: send the request, read the status, open the destination
download_file_send ==
    /\ DlFrame
    /\ pc = "df_send"
    /\ netlog' = Append(netlog, [file |-> idx, range |-> RangeHeader(dfExisting)])
    /\ hist' = [hist EXCEPT !.reqInNeedsConsent = @ \/ (modelState = "NeedsConsent")]
    /\ \/ \* send() fails
          /\ AttemptErr("NetworkError")
          /\ UNCHANGED <<bytes_downloaded, tempFiles, resp>>
       \/ \E status \in StatusCodes, corrupt \in BOOLEAN :
             /\ status = 206 => dfExisting > 0
             /\ status >= 400 => ~corrupt
             /\ IF status >= 400
                THEN /\ AttemptErr("HttpError")
                     /\ UNCHANGED <<bytes_downloaded, tempFiles, resp>>
                ELSE LET actually_resuming == dfExisting > 0 /\ status = 206 IN
                     /\ bytes_downloaded' =
                            IF dfExisting > 0 /\ status = 200
                            THEN bytes_downloaded - dfExisting
                            ELSE bytes_downloaded
                     /\ \/ \* the destination opens: appended to, or truncated
                           /\ tempFiles' = [tempFiles EXCEPT ![idx] =
                                  open_destination(@, actually_resuming)]
                           /\ resp' = [status |-> status,
                                       left |-> BodyLength(status, dfExisting, idx),
                                       corrupt |-> corrupt]
                           /\ pc' = "df_loop"
                           /\ UNCHANGED <<last_error, attempt>>
                        \/ \* OpenOptions::open fails
                           /\ ~corrupt
                           /\ AttemptErr("IoError")
                           /\ UNCHANGED <<tempFiles, resp>>
    /\ UNCHANGED <<cancelled, modelState, target, tempExists, idx, bytes_before_file,
                   dfExisting, result, runs, sleeps>>

\* lines 518-561: one turn of the streaming loop (one read of at most 8 KiB)
download_file_read ==
    /\ DlFrame
    /\ pc = "df_loop"
    /\ IF cancelled
       THEN /\ AttemptErr("Cancelled")
            /\ UNCHANGED <<tempFiles, resp, bytes_downloaded>>
       ELSE \/ \* reader.read fails
               /\ AttemptErr("IoError")
               /\ UNCHANGED <<tempFiles, resp, bytes_downloaded>>
            \/ \* n == 0: end of the body, sync_all, Ok
               /\ resp.left = 0
               /\ AttemptOk
               /\ UNCHANGED <<tempFiles, resp, bytes_downloaded>>
            \/ \* n > 0: write the bytes, count them, check the timeout
               /\ resp.left > 0
               /\ tempFiles' = [tempFiles EXCEPT ![idx] =
                      [present |-> TRUE, size |-> @.size + 1,
                       good |-> @.good /\ ~resp.corrupt]]
               /\ resp' = [resp EXCEPT !.left = @ - 1]
               /\ bytes_downloaded' = bytes_downloaded + 1
               /\ \/ UNCHANGED <<pc, last_error, attempt>>
                  \/ AttemptErr("Timeout")
    /\ UNCHANGED <<cancelled, modelState, target, tempExists, idx, bytes_before_file,
                   dfExisting, result, runs, netlog, sleeps, hist>>

\* lines 412-416: the cancellation check before verification
download_verify ==
    /\ DlFrame
    /\ pc = "verify"
    /\ IF cancelled
       THEN Return("Cancelled", TRUE)
       ELSE /\ pc' = "hash"
            /\ UNCHANGED <<tempExists, tempFiles, result>>
    /\ UNCHANGED <<cancelled, modelState, target, idx, attempt, last_error,
                   bytes_downloaded, bytes_before_file, dfExisting, resp, runs, netlog,
                   sleeps, hist>>

\* lines 418-427: compute_sha256 and the comparison with the manifest
download_hash ==
    /\ DlFrame
    /\ pc = "hash"
    /\ \/ \* compute_sha256 fails: `?` returns without cleanup
          /\ Return("IoError", FALSE)
          /\ UNCHANGED idx
       \/ IF HashMatches(tempFiles[idx], idx)
          THEN /\ idx' = idx + 1
               /\ pc' = "file_start"
               /\ UNCHANGED <<tempExists, tempFiles, result>>
          ELSE /\ Return("VerificationFailed", TRUE)
               /\ UNCHANGED idx
    /\ UNCHANGED <<cancelled, modelState, target, attempt, last_error, bytes_downloaded,
                   bytes_before_file, dfExisting, resp, runs, netlog, sleeps, hist>>

(***************************************************************************)
(* atomic_install (lines 565-582) and write_verified_marker (585-594).     *)
(***************************************************************************)
\* lines 567-569: remove the existing target
atomic_install_remove ==
    /\ DlFrame
    /\ pc = "install_remove"
    /\ IF target.exists
       THEN \/ /\ target' = NoTarget
               /\ pc' = "install_rename"
               /\ UNCHANGED <<tempExists, tempFiles, result>>
            \/ /\ Return("IoError", FALSE)
               /\ UNCHANGED target
       ELSE /\ pc' = "install_rename"
            /\ UNCHANGED <<target, tempExists, tempFiles, result>>
    /\ UNCHANGED <<cancelled, modelState, idx, attempt, last_error, bytes_downloaded,
                   bytes_before_file, dfExisting, resp, runs, netlog, sleeps, hist>>

\* line 572: rename the temporary directory to the target
atomic_install_rename ==
    /\ DlFrame
    /\ pc = "install_rename"
    /\ \/ /\ target' = [exists |-> TRUE,
                        files |-> {ManifestFiles[i] : i \in {j \in 1..NFiles : tempFiles[j].present}},
                        verified |-> "none",
                        bundle |-> "new"]
          /\ tempExists' = FALSE
          /\ tempFiles' = [i \in 1..NFiles |-> NoFile]
          /\ pc' = "write_marker"
          /\ UNCHANGED result
       \/ /\ Return("IoError", FALSE)
          /\ UNCHANGED target
    /\ UNCHANGED <<cancelled, modelState, idx, attempt, last_error, bytes_downloaded,
                   bytes_before_file, dfExisting, resp, runs, netlog, sleeps, hist>>

write_verified_marker ==
    /\ DlFrame
    /\ pc = "write_marker"
    /\ \/ /\ target' = [target EXCEPT !.verified = "new"]
          /\ Return("Ok", FALSE)
       \/ /\ Return("IoError", FALSE)
          /\ UNCHANGED target
    /\ UNCHANGED <<cancelled, modelState, idx, attempt, last_error, bytes_downloaded,
                   bytes_before_file, dfExisting, resp, runs, netlog, sleeps, hist>>

\* the caller takes download()'s result and derives the lifecycle state
download_returned ==
    /\ DlFrame
    /\ pc = "done"
    /\ pc' = "idle"
    /\ modelState' = IF result = "Cancelled" THEN "Cancelled"
                     ELSE IF result = "VerificationFailed" THEN "VerificationFailed"
                     ELSE check_model_installed(target)
    /\ UNCHANGED <<cancelled, target, tempExists, tempFiles, idx, attempt, last_error,
                   bytes_downloaded, bytes_before_file, dfExisting, resp, result, runs,
                   netlog, sleeps, hist>>

DlNext ==
    \/ RequestModel
    \/ GrantConsent
    \/ DeclineConsent
    \/ cancel
    \/ download
    \/ download_entry
    \/ download_file_start
    \/ download_attempt_start
    \/ download_after_retries
    \/ download_file_begin
    \/ download_file_send
    \/ download_file_read
    \/ download_verify
    \/ download_hash
    \/ atomic_install_remove
    \/ atomic_install_rename
    \/ write_verified_marker
    \/ download_returned

(***************************************************************************)
(* Text.  A string is a sequence of one-character strings; the operators   *)
(* below are the std::str methods the sources call.                        *)
(***************************************************************************)
Whitespace == {" ", "\t", "\n"}

\* the places of the characters of s that are not whitespace
NonWs(s) == {i \in 1..Len(s) : s[i] \notin Whitespace}

Least(S) == CHOOSE i \in S : \A j \in S : i <= j

Greatest(S) == CHOOSE i \in S : \A j \in S : i >= j

trim_start(s) ==
    IF NonWs(s) = {} THEN <<>> ELSE SubSeq(s, Least(NonWs(s)), Len(s))

trim_end(s) ==
    IF NonWs(s) = {} THEN <<>> ELSE SubSeq(s, 1, Greatest(NonWs(s)))

trim(s) == trim_end(trim_start(s))

starts_with(s, p) == Len(s) >= Len(p) /\ SubSeq(s, 1, Len(p)) = p

ends_with(s, p) == Len(s) >= Len(p) /\ SubSeq(s, Len(s) - Len(p) + 1, Len(s)) = p

contains(s, sub) == \E i \in 1..(Len(s) + 1) : starts_with(SubSeq(s, i, Len(s)), sub)

UpperCase == <<"A", "B", "C", "D", "E", "F", "G", "H", "I", "J", "K", "L", "M",
               "N", "O", "P", "Q", "R", "S", "T", "U", "V", "W", "X", "Y", "Z">>

LowerCase == <<"a", "b", "c", "d", "e", "f", "g", "h", "i", "j", "k", "l", "m",
               "n", "o", "p", "q", "r", "s", "t", "u", "v", "w", "x", "y", "z">>

to_lowercase(s) ==
    [i \in 1..Len(s) |->
        IF \E k \in 1..26 : UpperCase[k] = s[i]
        THEN LowerCase[CHOOSE k \in 1..26 : UpperCase[k] = s[i]]
        ELSE s[i]]

\* str::split_whitespace: the maximal runs of non-whitespace characters
RECURSIVE split_whitespace(_)
split_whitespace(s) ==
    IF NonWs(s) = {} THEN <<>>
    ELSE LET from == Least(NonWs(s))
             ws == {i \in from..Len(s) : s[i] \in Whitespace}
             to == IF ws = {} THEN Len(s) ELSE Least(ws) - 1
         IN  <<SubSeq(s, from, to)>> \o split_whitespace(SubSeq(s, to + 1, Len(s)))

\* [T]::join
RECURSIVE join(_, _)
join(words, sep) ==
    IF words = <<>> THEN <<>>
    ELSE IF Len(words) = 1 THEN words[1]
    ELSE words[1] \o sep \o join(Tail(words), sep)

Spaces(n) == [i \in 1..n |-> " "]

\* Option::None of an i64 timestamp or index; these are never negative
None == -1

(***************************************************************************)
(* The search client (query.rs).                                           *)
(***************************************************************************)
\* number of messages held by the two backends together
MaxHits == 4
\* largest limit passed to search
MaxLimit == 2
\* largest increase of the limit between the two calls that are compared
MaxMore == 1

\* the message contents the backends hold
ContentPool == <<
    \* "fix bug"
    <<"f", "i", "x", " ", "b", "u", "g">>,
    \* " fix  bug\n": the same words, other whitespace
    <<" ", "f", "i", "x", " ", " ", "b", "u", "g", "\n">>,
    \* "[Tool: x y"
    <<"[", "T", "o", "o", "l", ":", " ", "x", " ", "y">>,
    \* "TOOL: ls"
    <<"T", "O", "O", "L", ":", " ", "l", "s">>,
    \* "[Tool: x", 95 spaces, "y": a long text that starts like a tool invocation
    <<"[", "T", "o", "o", "l", ":", " ", "x">> \o Spaces(95) \o <<"y">>
>>

Contents == 1..Len(ContentPool)

\* bm25() scores (lower is better) and the inverted index's scores (higher is better)
SqliteScores == {-2, -1}

TantivyScores == {1, 2}

ToolPrefix == <<"[", "T", "o", "o", "l", ":">>

NoiseShortLen == 100

MarkerLen == 20

is_tool_invocation_noise(content) ==
    LET trimmed == trim(content) IN
    IF starts_with(trimmed, ToolPrefix)
       /\ (Len(trimmed) < NoiseShortLen \/ ends_with(trimmed, <<"]">>))
    THEN TRUE
    ELSE IF Len(trimmed) < MarkerLen
    THEN LET lower == to_lowercase(trimmed) IN
         \/ starts_with(lower, <<"[", "t", "o", "o", "l">>)
         \/ starts_with(lower, <<"t", "o", "o", "l", ":">>)
    ELSE FALSE

\* line 86: hit.content.split_whitespace().collect::<Vec<_>>().join(" ")
normalized(content) == join(split_whitespace(content), <<" ">>)

\* the two, tabulated over the pool
NoiseOf == [c \in Contents |-> is_tool_invocation_noise(ContentPool[c])]

KeyOf == [c \in Contents |-> normalized(ContentPool[c])]

\* lines 79-98: one turn of deduplicate_hits' loop; `seen` maps a key to the place in
\* `deduped` of the hit that holds it
dedup_step_keep_lowest(deduped, hit) ==
    IF NoiseOf[hit.content] THEN deduped
    ELSE LET seen == {k \in 1..Len(deduped) : KeyOf[deduped[k].content] = KeyOf[hit.content]} IN
         IF seen # {}
         THEN LET existing_idx == CHOOSE k \in seen : TRUE IN
              IF deduped[existing_idx].score > hit.score
              THEN [deduped EXCEPT ![existing_idx] = hit]
              ELSE deduped
         ELSE Append(deduped, hit)

dedup_step(deduped, hit) ==
    IF NoiseOf[hit.content] THEN deduped
    ELSE LET seen == {k \in 1..Len(deduped) : KeyOf[deduped[k].content] = KeyOf[hit.content]} IN
         IF seen # {}
         THEN LET existing_idx == CHOOSE k \in seen : TRUE IN
              IF deduped[existing_idx].score < hit.score
              THEN [deduped EXCEPT ![existing_idx] = hit]
              ELSE deduped
         ELSE Append(deduped, hit)

RECURSIVE dedup_loop(_, _)
dedup_loop(hits, deduped) ==
    IF hits = <<>> THEN deduped
    ELSE dedup_loop(Tail(hits), dedup_step(deduped, Head(hits)))

deduplicate_hits(hits) == dedup_loop(hits, <<>>)

\* LIMIT ? OFFSET ? / TopDocs::with_limit(limit).and_offset(offset)
Window(rows, limit, offset) ==
    SubSeq(rows, offset + 1, IF offset + limit < Len(rows) THEN offset + limit ELSE Len(rows))

\* Vec::truncate
truncate(hits, n) == IF Len(hits) > n THEN SubSeq(hits, 1, n) ELSE hits

\* the artifacts the indexed messages come from: a line-delimited journal and a
\* markdown transcript
JournalPath == <<"r", "o", "l", "l", "o", "u", "t", "-", "1", ".", "j", "s", "o", "n", "l">>

MarkdownPath == <<".", "a", "i", "d", "e", "r", ".", "c", "h", "a", "t", ".", "h", "i", "s", "t", "o", "r", "y", ".", "m", "d">>

\* the artifact the message with content c was read from
SourcePathOf == [c \in Contents |-> IF c % 2 = 1 THEN JournalPath ELSE MarkdownPath]

\* lines 360-381: the SearchHit built from a row; row.idx is m.idx of the join
sqlite_hit(row) ==
    [backend |-> row.backend, id |-> row.id, content |-> row.content, score |-> row.score,
     source_path |-> row.source_path,
     line_number |-> IF row.idx # None THEN row.idx + 1 ELSE None]

\* lines 253-295: the SearchHit built from a document
tantivy_hit(doc) ==
    [backend |-> doc.backend, id |-> doc.id, content |-> doc.content, score |-> doc.score,
     source_path |-> doc.source_path,
     line_number |-> None]

\* lines 300-389
search_sqlite(limit, offset) ==
    IF queryEmpty THEN <<>>
    ELSE LET rows == Window(sqliteRows, limit, offset) IN
         [k \in 1..Len(rows) |-> sqlite_hit(rows[k])]

\* lines 175-298
search_tantivy(limit, offset) ==
    LET top_docs == Window(tantivyDocs, limit, offset) IN
    [k \in 1..Len(top_docs) |-> tantivy_hit(top_docs[k])]

\* lines 125-173
search(limit, offset) ==
    LET fetch_limit == limit * 3
        sq == IF hasSqlite THEN search_sqlite(fetch_limit, offset) ELSE <<>>
    IN  IF hasSqlite /\ sq # <<>>
        THEN truncate(deduplicate_hits(sq), limit)
        ELSE IF hasReader
        THEN truncate(deduplicate_hits(search_tantivy(fetch_limit, offset)), limit)
        ELSE <<>>

NoCall == [op |-> "none"]

\* SearchClient::open: either backend may be missing; no message is indexed yet
SrInit ==
    /\ sqliteRows = <<>>
    /\ tantivyDocs = <<>>
    /\ hasSqlite \in BOOLEAN
    /\ hasReader \in BOOLEAN
    /\ queryEmpty \in BOOLEAN
    /\ call = NoCall
    /\ page = <<>>
    /\ pageMore = <<>>
    /\ dedupOut = <<>>

SrIdle ==
    /\ sqliteRows = <<>>
    /\ tantivyDocs = <<>>
    /\ hasSqlite = FALSE
    /\ hasReader = FALSE
    /\ queryEmpty = FALSE
    /\ call = NoCall
    /\ page = <<>>
    /\ pageMore = <<>>
    /\ dedupOut = <<>>

\* The calls below read the stores and change nothing, so each is observed once per
\* store content: `call` records the call observed and its arguments.

\* a message matching the query is committed to the relational store; it ranks after
\* the rows already there (ORDER BY score)
add_row ==
    /\ SrFrame
    /\ call = NoCall
    /\ hasSqlite /\ ~queryEmpty
    /\ Len(sqliteRows) + Len(tantivyDocs) < MaxHits
    /\ \E c \in Contents, sc \in SqliteScores :
          /\ sqliteRows # <<>> => sqliteRows[Len(sqliteRows)].score <= sc
          /\ sqliteRows' = Append(sqliteRows,
                [backend |-> "sqlite", id |-> Len(sqliteRows) + 1, content |-> c, score |-> sc,
                 idx |-> Len(sqliteRows), source_path |-> SourcePathOf[c]])
    /\ UNCHANGED <<call, page, pageMore, dedupOut>>
    /\ UNCHANGED <<tantivyDocs, hasSqlite, hasReader, queryEmpty>>

\* a message matching the query is committed to the inverted index; it ranks after
\* the documents already there (TopDocs: descending score)
add_doc ==
    /\ SrFrame
    /\ call = NoCall
    /\ hasReader
    /\ Len(sqliteRows) + Len(tantivyDocs) < MaxHits
    /\ \E c \in Contents, sc \in TantivyScores :
          /\ tantivyDocs # <<>> => tantivyDocs[Len(tantivyDocs)].score >= sc
          /\ tantivyDocs' = Append(tantivyDocs,
                [backend |-> "tantivy", id |-> Len(tantivyDocs) + 1, content |-> c, score |-> sc,
                 idx |-> Len(tantivyDocs), source_path |-> SourcePathOf[c]])
    /\ UNCHANGED <<call, page, pageMore, dedupOut>>
    /\ UNCHANGED <<sqliteRows, hasSqlite, hasReader, queryEmpty>>

\* search(query, {}, limit, 0) followed by search(query, {}, limit + more, 0)
search_pages ==
    /\ SrFrame
    /\ call = NoCall
    /\ \E limit \in 1..MaxLimit, more \in 0..MaxMore :
          /\ call' = [op |-> "search", limit |-> limit, more |-> more]
          /\ page' = search(limit, 0)
          /\ pageMore' = search(limit + more, 0)
    /\ dedupOut' = <<>>
    /\ UNCHANGED <<sqliteRows, tantivyDocs, hasSqlite, hasReader, queryEmpty>>

\* deduplicate_hits applied to what a backend returns
HitsOf(backend) == IF backend = "sqlite" THEN sqliteRows ELSE tantivyDocs

dedup_call ==
    /\ SrFrame
    /\ call = NoCall
    /\ \E backend \in {"sqlite", "tantivy"} :
          /\ HitsOf(backend) # <<>>
          /\ call' = [op |-> "dedup", backend |-> backend]
          /\ dedupOut' = deduplicate_hits(HitsOf(backend))
    /\ page' = <<>> /\ pageMore' = <<>>
    /\ UNCHANGED <<sqliteRows, tantivyDocs, hasSqlite, hasReader, queryEmpty>>

SrNext ==
    \/ add_row
    \/ add_doc
    \/ search_pages
    \/ dedup_call

(***************************************************************************)
(* The connectors (connectors/*.rs).  One connector scans one source root; *)
(* the agent's tools write the artifacts, scan only reads them.            *)
(***************************************************************************)
\* number of records (lines, items, bubbles) the artifacts of the root hold together
MaxRecords == 2
\* latest modification time of an artifact
MaxClock == 1

\* Option::or
or(a, b) == IF a # None THEN a ELSE b

\* connectors::file_modified_since
file_modified_since(mtime, since_ts) == since_ts = None \/ mtime >= since_ts

Letters == <<"A", "B", "C", "D", "E", "F", "G", "H">>

\* the texts the n-th record written to the root may carry: a letter, nothing, a blank
Texts(n) == {<<Letters[n]>>, <<>>, <<" ">>}

NoArtifact == [exists |-> FALSE, mtime |-> 0, recs |-> <<>>]

\* no root was read
NoRoot == <<>>

NoScan == [ok |-> FALSE, convs |-> <<>>, root |-> NoRoot, error |-> "none"]

\* scan returned Ok(convs) after reading `root`
ScanOk(convs, root) == [ok |-> TRUE, convs |-> convs, root |-> root, error |-> "none"]

\* scan returned Err(error) while reading `root`
ScanErr(error, root) == [ok |-> FALSE, convs |-> <<>>, root |-> root, error |-> error]

\* "/data": the data directory the indexer hands to scan; aider's transcripts
\* are below it
DataDir == <<"/", "d", "a", "t", "a">>

\* the directories a test hands to scan as an explicit override; they are empty
FixtureCodex == <<"/", "f", "i", "x", "/", ".", "c", "o", "d", "e", "x">>

FixtureCursor == <<"/", "f", "i", "x", "/", "C", "u", "r", "s", "o", "r">>

FixtureEmpty == <<"/", "f", "i", "x", "/", "e", "m", "p", "t", "y">>

\* ScanContext of the indexer: no override, the connector may use its defaults
DefaultCtx(since) == [since_ts |-> since, data_root |-> DataDir, explicit |-> FALSE]

NoCtx == DefaultCtx(None)

\* during a test over fixture roots the artifacts keep one modification time
ClockCap == IF harness = "fixture" THEN 0 ELSE MaxClock

\* the watermarks a scan may be given: none (a full scan), or the start of an earlier
\* scan (0 prunes nothing and is left to none)
Watermarks == {None} \cup 1..now

\* the contexts scan is called with: the indexer's, with a watermark; a test's,
\* with an explicit override or none, for a full scan
Contexts ==
    IF harness = "fixture"
    THEN {DefaultCtx(None)}
         \cup {[since_ts |-> None, data_root |-> r, explicit |-> TRUE] :
                  r \in {FixtureCodex, FixtureCursor, FixtureEmpty}}
    ELSE {DefaultCtx(since) : since \in Watermarks}

NewState == [messages |-> <<>>, started_at |-> None, ended_at |-> None]

\* for (i, msg) in messages.iter_mut().enumerate() { msg.idx = i as i64; }
reindex(messages) == [i \in 1..Len(messages) |-> [messages[i] EXCEPT !.idx = i - 1]]

RECURSIVE Concat(_)
Concat(ss) == IF ss = <<>> THEN <<>> ELSE Head(ss) \o Concat(Tail(ss))

LastIndexOf(s, c) ==
    IF \E i \in 1..Len(s) : s[i] = c THEN Greatest({i \in 1..Len(s) : s[i] = c}) ELSE 0

\* Path::file_name
file_name(path) == SubSeq(path, LastIndexOf(path, "/") + 1, Len(path))

\* Path::extension: what follows the last dot of the file name, unless the name has
\* no dot or only a leading one
extension(path) ==
    LET name == file_name(path)
        dot == LastIndexOf(name, ".")
    IN  IF dot <= 1 THEN <<>> ELSE SubSeq(name, dot + 1, Len(name))

\* Path::with_extension("")
with_extension_empty(path) ==
    LET name == file_name(path)
        dot == LastIndexOf(name, ".")
    IN  IF dot <= 1 THEN path ELSE SubSeq(path, 1, Len(path) - (Len(name) - dot + 1))

(***************************************************************************)
(* codex.rs                                                                *)
(***************************************************************************)
\* the rollout files, relative to <home>/sessions
CodexPaths == <<
    \* "2025/rollout-1.jsonl"
    <<"2", "0", "2", "5", "/", "r", "o", "l", "l", "o", "u", "t", "-", "1", ".", "j", "s", "o", "n", "l">>,
    \* "2025/rollout-1.json"
    <<"2", "0", "2", "5", "/", "r", "o", "l", "l", "o", "u", "t", "-", "1", ".", "j", "s", "o", "n">>
>>

Jsonl == <<"j", "s", "o", "n", "l">>

Json == <<"j", "s", "o", "n">>

\* file_name, extension and with_extension("") of the paths, tabulated
CodexName == [p \in 1..Len(CodexPaths) |-> file_name(CodexPaths[p])]

CodexExt == [p \in 1..Len(CodexPaths) |-> extension(CodexPaths[p])]

CodexId == [p \in 1..Len(CodexPaths) |-> with_extension_empty(CodexPaths[p])]

\* the lines of an envelope journal: {type, timestamp, payload}; `text` is the
\* flattened payload.content, payload.message or payload.text
JournalKinds == {"malformed", "session_meta", "response_item", "user_message",
                 "agent_reasoning"}

TextKinds == {"response_item", "user_message", "agent_reasoning", "item"}

\* the parts of a legacy document: an item of `items`, or bytes that are not JSON
LegacyKinds == {"item", "garbage"}

\* the records the n-th write may add to a rollout file at time t (a line of a type
\* that is not matched is skipped like a malformed one; an empty content is skipped
\* like a blank one where the code trims)
CodexRecords(p, n, t) ==
    LET kinds == IF CodexExt[p] = Jsonl THEN JournalKinds ELSE LegacyKinds IN
    {[kind |-> k, text |-> <<>>, ts |-> t] : k \in kinds \ TextKinds}
    \cup
    {[kind |-> k, text |-> x, ts |-> t] :
        k \in kinds \cap {"response_item", "item"}, x \in Texts(n) \ {<<>>}}
    \cup
    {[kind |-> k, text |-> x, ts |-> t] :
        k \in kinds \cap {"user_message"}, x \in Texts(n)}
    \cup
    {[kind |-> k, text |-> x, ts |-> t] :
        k \in kinds \cap {"agent_reasoning"}, x \in Texts(n) \ {<<" ">>}}

\* lines 24-29: CODEX_HOME or ~/.codex, the default location; the rollout files
\* of the model are below it
CodexHomeDir == <<"~", "/", ".", "c", "o", "d", "e", "x">>

\* lines 69-73
is_codex_dir(data_root) ==
    \/ contains(data_root, <<".", "c", "o", "d", "e", "x">>)
    \/ ends_with(data_root, <<"/", "c", "o", "d", "e", "x">>)
    \/ ends_with(data_root, <<"\\", "c", "o", "d", "e", "x">>)

\* lines 74-78
codex_home(c) == IF is_codex_dir(c.data_root) THEN c.data_root ELSE CodexHomeDir

\* lines 31-49
rollout_files(root) ==
    IF root # CodexHomeDir THEN <<>>
    ELSE
    SelectSeq([p \in 1..Len(CodexPaths) |-> p],
              LAMBDA p :
                  /\ codexHome[p].exists
                  /\ starts_with(CodexName[p], <<"r", "o", "l", "l", "o", "u", "t", "-">>)
                  /\ \/ ends_with(CodexName[p], <<".">> \o Jsonl)
                     \/ ends_with(CodexName[p], <<".">> \o Json))

\* session_cwd when no session_meta line gave a cwd
NoCwd == <<>>

\* lines 110-112: the state scan keeps for one rollout file
CodexState == [messages |-> <<>>, started_at |-> None, ended_at |-> None,
               session_cwd |-> NoCwd]

\* lines 139-142: payload.cwd of a session_meta line
payload_cwd(val) == IF "cwd" \in DOMAIN val THEN val.cwd ELSE NoCwd

\* lines 149-152: payload.role, "agent" when the payload has none
payload_role(val) == IF "role" \in DOMAIN val THEN val.role ELSE "agent"

\* lines 136-145
codex_session_meta(c, st, val) ==
    [st EXCEPT !.session_cwd = payload_cwd(val),
               !.started_at = or(st.started_at, val.ts)]

\* lines 146-176, with a message-level filter on the watermark
codex_response_item_since(c, st, val) ==
    IF trim(val.text) = <<>> \/ (c.since_ts # None /\ val.ts < c.since_ts) THEN st
    ELSE [st EXCEPT
            !.messages = Append(@,
                [idx |-> 0, role |-> payload_role(val), author |-> "none",
                 created_at |-> val.ts, content |-> val.text]),
            !.started_at = or(@, val.ts),
            !.ended_at = or(val.ts, @)]

\* lines 146-176
codex_response_item(c, st, val) ==
    IF trim(val.text) = <<>> THEN st
    ELSE [st EXCEPT
            !.messages = Append(@,
                [idx |-> 0, role |-> payload_role(val), author |-> "none",
                 created_at |-> val.ts, content |-> val.text]),
            !.started_at = or(@, val.ts),
            !.ended_at = or(val.ts, @)]

\* lines 177-223
codex_event_msg(c, st, val) ==
    IF val.text # <<>>
    THEN [st EXCEPT
            !.messages = Append(@,
                [idx |-> 0,
                 role |-> IF val.kind = "user_message" THEN "user" ELSE "assistant",
                 author |-> IF val.kind = "user_message" THEN "none" ELSE "reasoning",
                 created_at |-> val.ts, content |-> val.text]),
            !.ended_at = or(val.ts, @)]
    ELSE st

\* lines 116-226: one line of the journal
codex_line(c, st, val) ==
    CASE val.kind = "session_meta" -> codex_session_meta(c, st, val)
      [] val.kind = "response_item" -> codex_response_item(c, st, val)
      [] val.kind \in {"user_message", "agent_reasoning"} -> codex_event_msg(c, st, val)
      [] OTHER -> st

RECURSIVE codex_lines(_, _, _)
codex_lines(c, lines, st) ==
    IF lines = <<>> THEN st
    ELSE codex_lines(c, Tail(lines), codex_line(c, st, Head(lines)))

\* lines 247-278: one item of a legacy document
codex_item(c, st, item) ==
    IF trim(item.text) = <<>> THEN st
    ELSE [st EXCEPT
            !.messages = Append(@,
                [idx |-> 0, role |-> payload_role(item), author |-> "none",
                 created_at |-> item.ts, content |-> item.text]),
            !.started_at = or(@, item.ts),
            !.ended_at = or(item.ts, @)]

RECURSIVE codex_items(_, _, _)
codex_items(c, items, st) ==
    IF items = <<>> THEN st
    ELSE codex_items(c, Tail(items), codex_item(c, st, Head(items)))

\* lines 82-321: the body of scan's loop for one rollout file; the conversations
\* it pushes
codex_file(c, p) ==
    LET file == codexHome[p]
        ext == CodexExt[p]
        unparsed == ext = Json /\ \E i \in 1..Len(file.recs) : file.recs[i].kind = "garbage"
        st == IF ext = Jsonl THEN codex_lines(c, file.recs, CodexState)
              ELSE IF ext = Json /\ ~unparsed THEN codex_items(c, file.recs, CodexState)
              ELSE CodexState
    IN  IF ~file_modified_since(file.mtime, c.since_ts) THEN <<>>
        ELSE IF unparsed \/ st.messages = <<>> THEN <<>>
        ELSE <<[agent_slug |-> "codex",
                external_id |-> CodexId[p],
                workspace |-> st.session_cwd,
                source_path |-> CodexPaths[p],
                started_at |-> st.started_at,
                ended_at |-> st.ended_at,
                messages |-> reindex(st.messages)]>>

\* lines 65-324
codex_convs(c) ==
    LET files == rollout_files(codex_home(c)) IN
    Concat([k \in 1..Len(files) |-> codex_file(c, files[k])])

CodexCount ==
    Len(codexHome[1].recs) + Len(codexHome[2].recs)

\* the agent appends a line to a journal, or adds a part to a legacy document
codex_write ==
    /\ CnFrame
    /\ agent = "codex" /\ scanOut = NoScan
    /\ CodexCount < MaxRecords
    /\ \E p \in 1..Len(CodexPaths), t \in {now, now + 1} :
          /\ t <= ClockCap
          /\ \E rec \in CodexRecords(p, CodexCount + 1, t) :
                codexHome' = [codexHome EXCEPT ![p] =
                    [exists |-> TRUE, mtime |-> t, recs |-> Append(@.recs, rec)]]
          /\ now' = t
    /\ UNCHANGED <<agent, harness, unreadable, aiderRoot, clineRoot, cursorBase, ctx, scanOut>>

\* the envelope journal of scenario 2; timestamp k stands for 1700000000000 + 1000 k
\* milliseconds, and token_count is the payload type of the last event_msg
EnvelopeJournal == <<
    [kind |-> "session_meta", text |-> <<>>, ts |-> 0, cwd |-> <<"/", "w">>],
    [kind |-> "response_item", text |-> <<"h", "i">>, ts |-> 1, role |-> "user"],
    [kind |-> "agent_reasoning", text |-> <<"t", "h", "i", "n", "k", "i", "n", "g">>, ts |-> 2],
    [kind |-> "token_count", text |-> <<>>, ts |-> 3] >>

\* a test writes the journal of scenario 2 as the first rollout file
codex_write_journal ==
    /\ CnFrame
    /\ harness = "fixture" /\ agent = "codex" /\ scanOut = NoScan
    /\ CodexCount = 0
    /\ codexHome' = [codexHome EXCEPT ![1] =
            [exists |-> TRUE, mtime |-> now, recs |-> EnvelopeJournal]]
    /\ UNCHANGED <<agent, harness, unreadable, now, aiderRoot, clineRoot, cursorBase, ctx,
                   scanOut>>

\* lines 65-324: what scan returns; read_to_string's error (lines 105-106) ends it
codex_scan_out(c) ==
    LET files == rollout_files(codex_home(c)) IN
    IF \E k \in 1..Len(files) :
          /\ file_modified_since(codexHome[files[k]].mtime, c.since_ts)
          /\ <<"codex", files[k], "">> \in unreadable
    THEN ScanErr("read rollout", codex_home(c))
    ELSE ScanOk(codex_convs(c), codex_home(c))

\* CodexConnector::scan, with the watermark of an earlier scan or none
codex_scan ==
    /\ CnFrame
    /\ agent = "codex" /\ scanOut = NoScan
    /\ \E c \in Contexts :
          /\ ctx' = c
          /\ scanOut' = codex_scan_out(c)
    /\ UNCHANGED <<agent, harness, unreadable, now, codexHome, aiderRoot, clineRoot, cursorBase>>


(***************************************************************************)
(* aider.rs                                                                *)
(***************************************************************************)
\* the transcript files, relative to the data root
AiderPaths == <<
    \* "p1/.aider.chat.history.md"
    <<"p", "1", "/", ".", "a", "i", "d", "e", "r", ".", "c", "h", "a", "t", ".", "h", "i", "s", "t", "o", "r", "y", ".", "m", "d">>,
    \* "p2/.aider.chat.history.md"
    <<"p", "2", "/", ".", "a", "i", "d", "e", "r", ".", "c", "h", "a", "t", ".", "h", "i", "s", "t", "o", "r", "y", ".", "m", "d">>
>>

AiderName == [p \in 1..Len(AiderPaths) |-> file_name(AiderPaths[p])]

HistoryName == <<".", "a", "i", "d", "e", "r", ".", "c", "h", "a", "t", ".", "h", "i", "s", "t", "o", "r", "y", ".", "m", "d">>

\* the lines the n-th write may append: a prompt "> A", a reply "A", an empty line,
\* a quotation ">A"
AiderLines(n) ==
    {<<">", " ", Letters[n]>>, <<Letters[n]>>, <<>>, <<">", Letters[n]>>}

\* lines 16-38
find_chat_files(root) ==
    IF root # DataDir THEN <<>>
    ELSE
    SelectSeq([p \in 1..Len(AiderPaths) |-> p],
              LAMBDA p : aiderRoot[p].exists /\ AiderName[p] = HistoryName)

\* str::trim_start_matches
RECURSIVE trim_start_matches(_, _)
trim_start_matches(s, pat) ==
    IF starts_with(s, pat) THEN trim_start_matches(SubSeq(s, Len(pat) + 1, Len(s)), pat) ELSE s

\* lines 51-61, 69-79: push the buffer as a message of `role`
aider_flush(st, role) ==
    [st EXCEPT
        !.messages = Append(@, [idx |-> st.msg_idx, role |-> role, created_at |-> None,
                                content |-> trim(st.current_content)]),
        !.msg_idx = @ + 1,
        !.current_content = <<>>]

\* lines 47-86: one line of the transcript
aider_line(st, line) ==
    IF starts_with(trim(line), <<">", " ">>)
    THEN LET a == IF st.current_role # "user" /\ trim(st.current_content) # <<>>
                  THEN aider_flush(st, st.current_role)
                  ELSE st
         IN  [a EXCEPT
                !.current_role = "user",
                !.current_content =
                    @ \o trim(trim_start_matches(line, <<">", " ">>)) \o <<"\n">>]
    ELSE LET b == IF st.current_role = "user" /\ trim(line) # <<>>
                     /\ ~starts_with(line, <<">">>)
                  THEN [(IF trim(st.current_content) # <<>>
                         THEN aider_flush(st, "user") ELSE st)
                            EXCEPT !.current_role = "assistant"]
                  ELSE st
         IN  [b EXCEPT !.current_content = @ \o line \o <<"\n">>]

RECURSIVE aider_lines(_, _)
aider_lines(lines, st) ==
    IF lines = <<>> THEN st ELSE aider_lines(Tail(lines), aider_line(st, Head(lines)))

\* lines 40-118
parse_chat_history(p) ==
    LET st == aider_lines(aiderRoot[p].recs,
                  [messages |-> <<>>, current_role |-> "system",
                   current_content |-> <<>>, msg_idx |-> 0])
        messages == IF trim(st.current_content) # <<>>
                    THEN Append(st.messages,
                            [idx |-> st.msg_idx, role |-> st.current_role,
                             created_at |-> None, content |-> trim(st.current_content)])
                    ELSE st.messages
    IN  [agent_slug |-> "aider",
         external_id |-> AiderName[p],
         source_path |-> AiderPaths[p],
         started_at |-> aiderRoot[p].mtime,
         ended_at |-> aiderRoot[p].mtime,
         messages |-> messages]

\* lines 160-173
aider_convs(c) ==
    LET files == find_chat_files(c.data_root) IN
    Concat([k \in 1..Len(files) |->
        IF ~file_modified_since(aiderRoot[files[k]].mtime, c.since_ts)
        THEN <<>>
        ELSE <<parse_chat_history(files[k])>>])

AiderCount == Len(aiderRoot[1].recs) + Len(aiderRoot[2].recs)

\* aider is started in a directory: the transcript file is created
aider_create ==
    /\ CnFrame
    /\ agent = "aider" /\ scanOut = NoScan
    /\ \E p \in 1..Len(AiderPaths), t \in {now, now + 1} :
          /\ t <= ClockCap
          /\ ~aiderRoot[p].exists
          /\ aiderRoot' = [aiderRoot EXCEPT ![p] = [exists |-> TRUE, mtime |-> t, recs |-> <<>>]]
          /\ now' = t
    /\ UNCHANGED <<agent, harness, unreadable, codexHome, clineRoot, cursorBase, ctx, scanOut>>

\* aider appends a line to a transcript
aider_append ==
    /\ CnFrame
    /\ agent = "aider" /\ scanOut = NoScan
    /\ AiderCount < MaxRecords
    /\ \E p \in 1..Len(AiderPaths), t \in {now, now + 1} :
          /\ t <= ClockCap
          /\ aiderRoot[p].exists
          /\ \E line \in AiderLines(AiderCount + 1) :
                aiderRoot' = [aiderRoot EXCEPT ![p] =
                    [exists |-> TRUE, mtime |-> t, recs |-> Append(@.recs, line)]]
          /\ now' = t
    /\ UNCHANGED <<agent, harness, unreadable, codexHome, clineRoot, cursorBase, ctx, scanOut>>

\* the two-turn transcript of scenario 1
TwoTurnTranscript == <<
    <<">", " ", "h", "e", "l", "l", "o">>,
    <<"w", "o", "r", "l", "d", " ", "r", "e", "p", "l", "y">>,
    <<">", " ", "s", "e", "c", "o", "n", "d">>,
    <<"s", "e", "c", "o", "n", "d", " ", "r", "e", "p", "l", "y">> >>

\* a test writes the transcript of scenario 1 as the first history file
aider_write_transcript ==
    /\ CnFrame
    /\ harness = "fixture" /\ agent = "aider" /\ scanOut = NoScan
    /\ AiderCount = 0
    /\ aiderRoot' = [aiderRoot EXCEPT ![1] =
            [exists |-> TRUE, mtime |-> now, recs |-> TwoTurnTranscript]]
    /\ UNCHANGED <<agent, harness, unreadable, now, codexHome, clineRoot, cursorBase, ctx,
                   scanOut>>

\* AiderConnector::scan
aider_scan ==
    /\ CnFrame
    /\ agent = "aider" /\ scanOut = NoScan
    /\ \E c \in Contexts :
          /\ ctx' = c
          /\ scanOut' = ScanOk(aider_convs(c), c.data_root)
    /\ UNCHANGED <<agent, harness, unreadable, now, codexHome, aiderRoot, clineRoot, cursorBase>>

(***************************************************************************)
(* cline.rs                                                                *)
(***************************************************************************)
\* the task directories of the storage root
ClineTasks == <<
    \* "1700000000001"
    <<"1", "7", "0", "0", "0", "0", "0", "0", "0", "0", "0", "0", "1">>,
    \* "1700000000002"
    <<"1", "7", "0", "0", "0", "0", "0", "0", "0", "0", "0", "0", "2">>
>>

NoTask == [exists |-> FALSE, ui |-> NoArtifact, api |-> NoArtifact]

\* the parts of ui_messages.json / api_conversation_history.json: an element of the
\* array, or bytes that are not JSON
ClineRecords(n, t) ==
    {[kind |-> "item", text |-> x, ts |-> t] : x \in Texts(n) \ {<<" ">>}}
    \cup {[kind |-> "garbage", text |-> <<>>, ts |-> t]}

\* lines 74-106: the messages one file adds
cline_file(file) ==
    IF ~file.exists THEN <<>>
    ELSE IF \E i \in 1..Len(file.recs) : file.recs[i].kind = "garbage" THEN <<>>
    ELSE [i \in 1..Len(file.recs) |->
            [idx |-> i - 1, role |-> "agent", created_at |-> file.recs[i].ts,
             content |-> file.recs[i].text]]

\* lines 53-135: the body of scan's loop for one directory entry
cline_task(k) ==
    LET messages == cline_file(clineRoot[k].ui) \o cline_file(clineRoot[k].api) IN
    IF ~clineRoot[k].exists \/ ClineTasks[k] = <<"t", "a", "s", "k", "H", "i", "s", "t", "o", "r", "y", ".", "j", "s", "o", "n">> THEN <<>>
    ELSE IF messages = <<>> THEN <<>>
    ELSE <<[agent_slug |-> "cline",
            external_id |-> ClineTasks[k],
            source_path |-> ClineTasks[k],
            started_at |-> None,
            ended_at |-> None,
            messages |-> messages]>>

\* lines 23-30: the extension's globalStorage directory, the default location;
\* the task directories of the model are below it
ClineStorageRoot == <<"~", "/", ".", "c", "o", "n", "f", "i", "g", "/", "C", "o", "d", "e">>

\* lines 46-138: the context is not read
cline_convs(c) == Concat([k \in 1..Len(ClineTasks) |-> cline_task(k)])

\* lines 46-138: what scan returns; read_to_string's error (lines 77-78) ends it
cline_scan_out(c) ==
    IF \E k \in 1..Len(ClineTasks), f \in {"ui", "api"} :
          /\ clineRoot[k].exists
          /\ clineRoot[k][f].exists
          /\ <<"cline", k, f>> \in unreadable
    THEN ScanErr("read", ClineStorageRoot)
    ELSE ScanOk(cline_convs(c), ClineStorageRoot)

ClineFileCount(k) == Len(clineRoot[k].ui.recs) + Len(clineRoot[k].api.recs)

ClineCount == ClineFileCount(1) + ClineFileCount(2)

\* cline writes an element to one of a task's two files
cline_write ==
    /\ CnFrame
    /\ agent = "cline" /\ scanOut = NoScan
    /\ ClineCount < MaxRecords
    /\ \E k \in 1..Len(ClineTasks), t \in {now, now + 1}, f \in {"ui", "api"} :
          /\ t <= ClockCap
          /\ \E rec \in ClineRecords(ClineCount + 1, t) :
                clineRoot' = [clineRoot EXCEPT ![k] =
                    IF f = "ui"
                    THEN [@ EXCEPT !.exists = TRUE,
                             !.ui = [exists |-> TRUE, mtime |-> t, recs |-> Append(@.recs, rec)]]
                    ELSE [@ EXCEPT !.exists = TRUE,
                             !.api = [exists |-> TRUE, mtime |-> t, recs |-> Append(@.recs, rec)]]]
          /\ now' = t
    /\ UNCHANGED <<agent, harness, unreadable, codexHome, aiderRoot, cursorBase, ctx, scanOut>>

\* ClineConnector::scan; it does not read its context, whose watermark is left out
cline_scan ==
    /\ CnFrame
    /\ agent = "cline" /\ scanOut = NoScan
    /\ \E c \in IF harness = "fixture" THEN Contexts ELSE {NoCtx} :
          /\ ctx' = c
          /\ scanOut' = cline_scan_out(c)
    /\ UNCHANGED <<agent, harness, unreadable, now, codexHome, aiderRoot, clineRoot, cursorBase>>


(***************************************************************************)
(* cursor.rs                                                               *)
(***************************************************************************)
\* the database files, relative to the base directory, in find_db_files' order
CursorDbs == <<
    \* "globalStorage/state.vscdb"
    <<"g", "l", "o", "b", "a", "l", "S", "t", "o", "r", "a", "g", "e", "/", "s", "t", "a", "t", "e", ".", "v", "s", "c", "d", "b">>,
    \* "workspaceStorage/w1/state.vscdb"
    <<"w", "o", "r", "k", "s", "p", "a", "c", "e", "S", "t", "o", "r", "a", "g", "e", "/", "w", "1", "/", "s", "t", "a", "t", "e", ".", "v", "s", "c", "d", "b">>
>>

\* the key of the cursorDiskKV row: "composerData:u1"
ComposerKey == <<"c", "o", "m", "p", "o", "s", "e", "r", "D", "a", "t", "a", ":", "u", "1">>

ComposerPrefix == <<"c", "o", "m", "p", "o", "s", "e", "r", "D", "a", "t", "a", ":">>

\* the key of the ItemTable row: "workbench.panel.aichat.view.aichat.chatdata"
AichatKey == <<"w", "o", "r", "k", "b", "e", "n", "c", "h", ".", "p", "a", "n", "e", "l", ".", "a", "i", "c", "h", "a", "t", ".", "v", "i", "e", "w", ".", "a", "i", "c", "h", "a", "t", ".", "c", "h", "a", "t", "d", "a", "t", "a">>

\* the JSON value of a row: tabs and conversationMap entries are lists of bubbles
\* [text, ts]; `text` is the value's text / richText ("" when absent)
NoValue == [present |-> FALSE, createdAt |-> None, tabs |-> <<>>, map |-> <<>>, text |-> <<>>]

NoDb == [exists |-> FALSE, mtime |-> 0, kv |-> NoValue, item |-> NoValue]

CursorTexts(n) == Texts(n) \ {<<>>}

\* key LIKE '%a%b%'
like2(s, a, b) ==
    \E i \in 1..(Len(s) + 1) :
        /\ starts_with(SubSeq(s, i, Len(s)), a)
        /\ contains(SubSeq(s, i + Len(a), Len(s)), b)

\* str::strip_prefix; <<>> stands for None (no key of the model is the bare prefix)
strip_prefix(s, pre) == IF starts_with(s, pre) THEN SubSeq(s, Len(pre) + 1, Len(s)) ELSE <<>>

\* WHERE key LIKE 'composerData:%' (line 154), for the key of the model
ComposerKeySelected == starts_with(ComposerKey, ComposerPrefix)

\* key.strip_prefix("composerData:") (line 210), for the key of the model
ComposerId == strip_prefix(ComposerKey, ComposerPrefix)

\* WHERE key LIKE '%aichat%chatdata%' OR key LIKE '%composer%' (line 176), for the
\* key of the model
AichatKeySelected ==
    \/ like2(AichatKey, <<"a", "i", "c", "h", "a", "t">>,
             <<"c", "h", "a", "t", "d", "a", "t", "a">>)
    \/ contains(AichatKey, <<"c", "o", "m", "p", "o", "s", "e", "r">>)

\* format!("aichat-{}", key) (line 376), for the key of the model
AichatId == <<"a", "i", "c", "h", "a", "t", "-">> \o AichatKey

\* lines 320-363
parse_bubble(bubble, index) ==
    IF trim(bubble.text) = <<>> THEN <<>>
    ELSE <<[idx |-> index, role |-> "assistant", created_at |-> bubble.ts,
            content |-> bubble.text]>>

\* lines 232-236
RECURSIVE tab_bubbles(_, _, _)
tab_bubbles(bubbles, i, messages) ==
    IF i >= Len(bubbles) THEN messages
    ELSE tab_bubbles(bubbles, i + 1, messages \o parse_bubble(bubbles[i + 1], i))

\* lines 229-239
RECURSIVE composer_tabs(_, _)
composer_tabs(tabs, messages) ==
    IF tabs = <<>> THEN messages
    ELSE composer_tabs(Tail(tabs), tab_bubbles(Head(tabs), 0, messages))

\* lines 245-249
RECURSIVE map_bubbles(_, _, _)
map_bubbles(bubbles, i, messages) ==
    IF i >= Len(bubbles) THEN messages
    ELSE map_bubbles(bubbles, i + 1,
                     messages \o parse_bubble(bubbles[i + 1], Len(messages) + i))

\* lines 242-252
RECURSIVE composer_map(_, _)
composer_map(entries, messages) ==
    IF entries = <<>> THEN messages
    ELSE composer_map(Tail(entries), map_bubbles(Head(entries), 0, messages))

\* lines 254-271
composer_text(val, since_ts, messages) ==
    IF val.text # <<>> /\ messages = <<>>
    THEN <<[idx |-> 0, role |-> "user", created_at |-> val.createdAt, content |-> val.text]>>
    ELSE messages

\* lines 200-317; returns the conversation (or none) and the new seen_ids
parse_composer_data(key, val, d, since_ts, seen_ids) ==
    LET composer_id == IF key = ComposerKey THEN ComposerId
                       ELSE strip_prefix(key, ComposerPrefix)
        messages == composer_text(val, since_ts,
                        composer_map(val.map, composer_tabs(val.tabs, <<>>)))
    IN  IF composer_id = <<>> \/ composer_id \in seen_ids
        THEN [convs |-> <<>>, seen_ids |-> seen_ids]
        ELSE [seen_ids |-> seen_ids \cup {composer_id},
              convs |->
                IF messages = <<>> THEN <<>>
                ELSE <<[agent_slug |-> "cursor",
                        external_id |-> composer_id,
                        source_path |-> CursorDbs[d],
                        started_at |-> val.createdAt,
                        ended_at |-> or(messages[Len(messages)].created_at, val.createdAt),
                        messages |-> reindex(messages)]>>]

\* lines 394-402: tab.timestamp is absent
RECURSIVE aichat_bubbles(_, _)
aichat_bubbles(bubbles, st) ==
    IF bubbles = <<>> THEN st
    ELSE LET msg == parse_bubble(Head(bubbles), Len(st.messages)) IN
         aichat_bubbles(Tail(bubbles),
            IF msg = <<>> THEN st
            ELSE [messages |-> st.messages \o msg,
                  started_at |-> IF st.started_at = None
                                 THEN or(msg[1].created_at, None) ELSE st.started_at,
                  ended_at |-> or(msg[1].created_at, None)])

\* lines 387-405
RECURSIVE aichat_tabs(_, _)
aichat_tabs(tabs, st) ==
    IF tabs = <<>> THEN st
    ELSE aichat_tabs(Tail(tabs), aichat_bubbles(Head(tabs), st))

\* lines 366-437
parse_aichat_data(key, val, d, since_ts, seen_ids) ==
    LET id == IF key = AichatKey THEN AichatId
              ELSE <<"a", "i", "c", "h", "a", "t", "-">> \o key
        st == aichat_tabs(val.tabs, NewState)
    IN  IF id \in seen_ids
        THEN [convs |-> <<>>, seen_ids |-> seen_ids]
        ELSE [seen_ids |-> seen_ids \cup {id},
              convs |->
                IF st.messages = <<>> THEN <<>>
                ELSE <<[agent_slug |-> "cursor",
                        external_id |-> id,
                        source_path |-> CursorDbs[d],
                        started_at |-> st.started_at,
                        ended_at |-> st.ended_at,
                        messages |-> reindex(st.messages)]>>]

\* lines 139-197: seen_ids starts empty for every database file
extract_from_db(d, since_ts) ==
    LET db == cursorBase[d]
        kv == IF db.kv.present /\ ComposerKeySelected
              THEN parse_composer_data(ComposerKey, db.kv, d, since_ts, {})
              ELSE [convs |-> <<>>, seen_ids |-> {}]
        item == IF db.item.present /\ AichatKeySelected
                THEN parse_aichat_data(AichatKey, db.item, d, since_ts, kv.seen_ids)
                ELSE [convs |-> <<>>, seen_ids |-> kv.seen_ids]
    IN  kv.convs \o item.convs

\* lines 111-136
find_db_files ==
    SelectSeq([d \in 1..Len(CursorDbs) |-> d], LAMBDA d : cursorBase[d].exists)

\* lines 30-62: the Cursor application-support directory, the default location;
\* the databases of the model are below it
CursorAppSupport == <<"~", "/", ".", "c", "o", "n", "f", "i", "g", "/", "C", "u", "r", "s", "o", "r", "/", "U", "s", "e", "r">>

\* lines 462-468; no root handed to scan holds globalStorage or workspaceStorage
looks_like_base(path) == contains(file_name(path), <<"C", "u", "r", "s", "o", "r">>)

\* ScanContext::use_default_detection
use_default_detection(c) == ~c.explicit

\* lines 470-483
cursor_base(c) ==
    IF use_default_detection(c)
    THEN IF looks_like_base(c.data_root) THEN c.data_root ELSE CursorAppSupport
    ELSE IF ~looks_like_base(c.data_root) THEN NoRoot ELSE c.data_root

\* lines 489-515, for the base directory `base`
cursor_convs(c) ==
    LET db_files == IF cursor_base(c) = CursorAppSupport THEN find_db_files ELSE <<>> IN
    Concat([k \in 1..Len(db_files) |->
        IF ~file_modified_since(cursorBase[db_files[k]].mtime, c.since_ts)
        THEN <<>>
        ELSE extract_from_db(db_files[k], c.since_ts)])

RECURSIVE SumLen(_)
SumLen(ss) == IF ss = <<>> THEN 0 ELSE Len(Head(ss)) + SumLen(Tail(ss))

ValueCount(val) ==
    SumLen(val.tabs) + SumLen(val.map) + (IF val.text = <<>> THEN 0 ELSE 1)

\* the records Cursor has written (the copy in the second file is not counted)
CursorCount == ValueCount(cursorBase[1].kv) + ValueCount(cursorBase[1].item)

\* a list of bubble lists with one more bubble, in a new list or in the last one
AddBubble(groups, fresh, bubble) ==
    IF fresh \/ groups = <<>> THEN Append(groups, <<bubble>>)
    ELSE [groups EXCEPT ![Len(groups)] = Append(@, bubble)]

\* Cursor stores a bubble in the global database: in a new or the last tab of the
\* composer, in a new conversationMap entry of the composer, or in the tab of the
\* legacy chat
cursor_add_bubble ==
    /\ CnFrame
    /\ agent = "cursor" /\ scanOut = NoScan
    /\ CursorCount < MaxRecords
    /\ \E place \in {"tabs", "map", "aichat"}, fresh \in BOOLEAN, t \in {now, now + 1} :
          /\ t <= ClockCap
          /\ place = "aichat" => ~fresh
          /\ place = "map" => fresh
          /\ \E x \in CursorTexts(CursorCount + 1) :
                LET bubble == [text |-> x, ts |-> t]
                    db == cursorBase[1]
                    kv == [db.kv EXCEPT !.present = TRUE,
                                        !.createdAt = IF db.kv.present THEN @ ELSE t]
                IN  cursorBase' = [cursorBase EXCEPT ![1] =
                        CASE place = "tabs" ->
                               [db EXCEPT !.exists = TRUE, !.mtime = t,
                                   !.kv = [kv EXCEPT !.tabs = AddBubble(@, fresh, bubble)]]
                          [] place = "map" ->
                               [db EXCEPT !.exists = TRUE, !.mtime = t,
                                   !.kv = [kv EXCEPT !.map = AddBubble(@, fresh, bubble)]]
                          [] OTHER ->
                               [db EXCEPT !.exists = TRUE, !.mtime = t,
                                   !.item = [@ EXCEPT !.present = TRUE,
                                                !.tabs = AddBubble(@, fresh, bubble)]]]
          /\ now' = t
    /\ UNCHANGED <<agent, harness, unreadable, codexHome, aiderRoot, clineRoot, ctx, scanOut>>

\* Cursor stores the composer's input text
cursor_set_text ==
    /\ CnFrame
    /\ agent = "cursor" /\ scanOut = NoScan
    /\ CursorCount < MaxRecords
    /\ cursorBase[1].kv.text = <<>>
    /\ \E t \in {now, now + 1} :
          /\ t <= ClockCap
          /\ \E x \in CursorTexts(CursorCount + 1) :
                cursorBase' = [cursorBase EXCEPT ![1] =
                    [@ EXCEPT !.exists = TRUE, !.mtime = t,
                              !.kv = [@ EXCEPT !.present = TRUE,
                                        !.createdAt = IF cursorBase[1].kv.present THEN @ ELSE t,
                                        !.text = x]]]
          /\ now' = t
    /\ UNCHANGED <<agent, harness, unreadable, codexHome, aiderRoot, clineRoot, ctx, scanOut>>

\* Cursor stores the composer in a workspace database too
cursor_store_in_workspace ==
    /\ CnFrame
    /\ agent = "cursor" /\ scanOut = NoScan
    /\ cursorBase[1].kv.present
    /\ ~cursorBase[2].exists
    /\ cursorBase' = [cursorBase EXCEPT ![2] =
          [exists |-> TRUE, mtime |-> now, kv |-> cursorBase[1].kv, item |-> NoValue]]
    /\ UNCHANGED now
    /\ UNCHANGED <<agent, harness, unreadable, codexHome, aiderRoot, clineRoot, ctx, scanOut>>

\* lines 460-518: what scan returns
cursor_scan_out(c) == ScanOk(cursor_convs(c), cursor_base(c))

\* CursorConnector::scan
cursor_scan ==
    /\ CnFrame
    /\ agent = "cursor" /\ scanOut = NoScan
    /\ \E c \in Contexts :
          /\ ctx' = c
          /\ scanOut' = cursor_scan_out(c)
    /\ UNCHANGED <<agent, harness, unreadable, now, codexHome, aiderRoot, clineRoot, cursorBase>>

(***************************************************************************)
(* The connectors together.                                                *)
(***************************************************************************)
Agents == {"aider", "codex", "cline", "cursor"}

CnEmpty ==
    /\ now = 0
    /\ codexHome = [p \in 1..Len(CodexPaths) |-> NoArtifact]
    /\ aiderRoot = [p \in 1..Len(AiderPaths) |-> NoArtifact]
    /\ clineRoot = [k \in 1..Len(ClineTasks) |-> NoTask]
    /\ cursorBase = [d \in 1..Len(CursorDbs) |-> NoDb]
    /\ ctx = NoCtx
    /\ scanOut = NoScan
    /\ unreadable = {}

\* a source root without artifacts, and the connector that will scan it
CnInit == agent \in Agents /\ harness = "indexer" /\ CnEmpty

CnIdle == agent = "aider" /\ harness = "indexer" /\ CnEmpty

\* the same, for a test that hands fixture roots to scan
FxInit == agent \in Agents /\ harness = "fixture" /\ CnEmpty

\* an artifact of codex or cline becomes unreadable: its permissions are
\* withdrawn, or bytes that are not UTF-8 are written to it
artifact_unreadable ==
    /\ CnFrame
    /\ harness = "fixture" /\ scanOut = NoScan /\ unreadable = {}
    /\ \/ /\ agent = "codex"
          /\ \E p \in 1..Len(CodexPaths) :
                /\ codexHome[p].exists
                /\ unreadable' = {<<"codex", p, "">>}
       \/ /\ agent = "cline"
          /\ \E k \in 1..Len(ClineTasks), f \in {"ui", "api"} :
                /\ clineRoot[k].exists /\ clineRoot[k][f].exists
                /\ unreadable' = {<<"cline", k, f>>}
    /\ UNCHANGED <<agent, harness, now, codexHome, aiderRoot, clineRoot, cursorBase,
                   ctx, scanOut>>

CnNext ==
    \/ codex_write
    \/ codex_scan
    \/ aider_create
    \/ aider_append
    \/ aider_scan
    \/ cline_write
    \/ cline_scan
    \/ cursor_add_bubble
    \/ cursor_set_text
    \/ cursor_store_in_workspace
    \/ cursor_scan


(***************************************************************************)
(* The remote sync engine (sources/sync.rs).  sync_all walks the sources   *)
(* it is given; sync_source walks the paths of one source.  The remote     *)
(* host, the transfer tool and the local file system are the environment.  *)
(***************************************************************************)
\* number of sources handed to sync_all
MaxSources == 2

\* the remote home directory the shell lookup prints
HomeDir == <<"/", "h">>

\* remote_home when the lookup was not made or failed (Option::None)
NoHome == <<>>

\* the sources a configuration can hold: a local one, a remote one without
\* host, a remote one without paths, and two remote ones with paths, one of
\* them with a path under the remote home
SourcePool == <<
    [name |-> "local", remote |-> FALSE, host |-> None, paths |-> << <<"~", "/", "l">> >>],
    [name |-> "nohost", remote |-> TRUE, host |-> None, paths |-> << <<"/", "n">> >>],
    [name |-> "nopaths", remote |-> TRUE, host |-> 1, paths |-> <<>>],
    [name |-> "laptop", remote |-> TRUE, host |-> 1,
     paths |-> << <<"~", "/", "a", " ", "b">>, <<"/", "h", "/", "a", "_", "b">> >>],
    [name |-> "server", remote |-> TRUE, host |-> 2,
     paths |-> << <<"/", "s">>, <<"/", "x", ":", "y">> >>] >>

\* SourceDefinition::is_remote
is_remote(source) == source.remote

\* what a failing step of the environment fails with during one sync_all:
\* directory creation, spawning the transfer, or the transfer's exit status
\* together with the known phrases its stderr contains
Faults ==
    {[kind |-> "mkdir", stderr |-> {}], [kind |-> "spawn", stderr |-> {}]}
    \cup {[kind |-> "exit", stderr |-> e] :
            e \in {{}, {"Connection refused"}, {"Connection timed out"},
                   {"No such file or directory"},
                   {"Permission denied", "No such file or directory"}}}

\* the files a remote path can hold when it is transferred
RemoteFiles == {"f"}

\* lines 114-122
SyncReport_new(source_name, m) ==
    [source_name |-> source_name, method |-> m, path_results |-> <<>>,
     all_succeeded |-> TRUE]

\* PathSyncResult::default with the fields a caller sets
PathSyncResult(remote_path, local_path, files, success, error) ==
    [remote_path |-> remote_path, local_path |-> local_path,
     files_transferred |-> files, bytes_transferred |-> files,
     success |-> success, error |-> error]

\* lines 125-137
SyncReport_failed(source_name, error) ==
    [source_name |-> source_name, method |-> "rsync",
     path_results |-> << PathSyncResult(<<>>, <<>>, 0, FALSE, error) >>,
     all_succeeded |-> FALSE]

\* lines 140-145
add_path_result(r, res) ==
    [r EXCEPT !.all_succeeded = @ /\ res.success,
              !.path_results = Append(@, res)]

\* lines 258-275
expand_tilde_with_home(path, home) ==
    IF ~starts_with(path, <<"~">>) THEN path
    ELSE IF home = NoHome THEN path
    ELSE IF path = <<"~">> THEN home
    ELSE IF starts_with(path, <<"~", "/">>)
         THEN home \o <<"/">> \o SubSeq(path, 3, Len(path))
    ELSE path

\* str::replace of each of the characters `from` by `to`
replace(s, from, to) == [i \in 1..Len(s) |-> IF s[i] \in from THEN to ELSE s[i]]

\* lines 526-537
path_to_safe_dirname(path) ==
    LET cleaned == replace(trim_start_matches(trim_start_matches(path, <<"~">>), <<"/">>),
                           {"/", "\\", " "}, "_")
    IN  IF cleaned = <<>> THEN <<"r", "o", "o", "t">> ELSE cleaned

\* a transfer command that mirrors deletions
rsync_args_delete(remote_spec, local_path) ==
    [flags |-> <<"-avz", "--stats", "--partial", "--protect-args", "--delete",
                 "--timeout", "-e">>,
     src |-> remote_spec, dest |-> local_path]

\* lines 407-420: the arguments of the transfer command
rsync_args(remote_spec, local_path) ==
    [flags |-> <<"-avz", "--stats", "--partial", "--protect-args", "--timeout", "-e">>,
     src |-> remote_spec, dest |-> local_path]

\* the transfer tool: with --delete the destination becomes the files sent,
\* without it the files sent are added to the destination
rsync(args, name, dir, sent) ==
    LET arrived == {<<name, dir, f>> : f \in sent}
    IN  IF \E k \in 1..Len(args.flags) : args.flags[k] = "--delete"
        THEN {e \in mirror : ~(e[1] = name /\ e[2] = dir)} \cup arrived
        ELSE mirror \cup arrived

\* lines 447-459
rsync_error_msg(stderr) ==
    IF "Connection refused" \in stderr \/ "Connection timed out" \in stderr
    THEN "SSH connection failed"
    ELSE IF "No such file or directory" \in stderr THEN "Remote path not found"
    ELSE IF "Permission denied" \in stderr THEN "Permission denied"
    ELSE "rsync failed"

\* a sync that looks the home directory up whatever the paths are
any_tilde_always(paths) == TRUE

\* line 315: source.paths.iter().any(|p| p.starts_with('~'))
any_tilde(paths) == \E j \in 1..Len(paths) : starts_with(paths[j], <<"~">>)

\* the source sync_all is at
source == sources[srcIdx]

\* a loop that stops at the first path that fails
path_done_stop_on_failure(res) ==
    /\ report' = add_path_result(report, res)
    /\ pathIdx' = IF res.success THEN pathIdx + 1 ELSE Len(source.paths) + 1

\* lines 327-335: the loop body's tail, after the path's result is known
path_done_keep_going(res) ==
    /\ report' = add_path_result(report, res)
    /\ pathIdx' = pathIdx + 1

\* lines 348-354: the closure's result is collected and the next source is taken
collect(r) ==
    /\ reports' = Append(reports, r)
    /\ srcIdx' = srcIdx + 1
    /\ syncPc' = "next"

\* no transfer command was run yet
NoCmd == [flags |-> <<>>, src |-> <<>>, dest |-> <<>>]

\* the sources handed to sync_all, the environment, and an empty local store
SyInit ==
    /\ sources \in UNION {[1..n -> {SourcePool[k] : k \in 1..Len(SourcePool)}] : n \in 0..MaxSources}
    /\ hasRsync \in BOOLEAN
    /\ fault \in Faults
    /\ syncPc = "next"
    /\ srcIdx = 1
    /\ pathIdx = 1
    /\ remote_home = NoHome
    /\ lookups = 0
    /\ report = SyncReport_new("", "rsync")
    /\ reports = <<>>
    /\ mirror = {}
    /\ cmd = NoCmd

\* the sync engine at rest, for the specifications of the other subsystems
SyIdle ==
    /\ sources = <<>>
    /\ hasRsync = TRUE
    /\ fault = [kind |-> "exit", stderr |-> {}]
    /\ syncPc = "done"
    /\ srcIdx = 1
    /\ pathIdx = 1
    /\ remote_home = NoHome
    /\ lookups = 0
    /\ report = SyncReport_new("", "rsync")
    /\ reports = <<>>
    /\ mirror = {}
    /\ cmd = NoCmd

\* lines 296-304: sync_source returns NoHost or NoPaths
sync_source_reject ==
    /\ syncPc = "next"
    /\ srcIdx <= Len(sources)
    /\ \/ /\ ~is_remote(source) \/ source.host = None
          /\ collect(SyncReport_failed(source.name, "NoHost"))
       \/ /\ is_remote(source) /\ source.host # None
          /\ source.paths = <<>>
          /\ collect(SyncReport_failed(source.name, "NoPaths"))
    /\ lookups' = 0
    /\ UNCHANGED <<sources, hasRsync, fault, pathIdx, remote_home, report, mirror, cmd>>
    /\ SyFrame

\* lines 306-312, 315, 323-325: the method is detected, the report is opened and
\* the mirror directory is created
sync_source_start ==
    /\ syncPc = "next"
    /\ srcIdx <= Len(sources)
    /\ is_remote(source) /\ source.host # None /\ source.paths # <<>>
    /\ \/ /\ report' = SyncReport_new(source.name, IF hasRsync THEN "rsync" ELSE "sftp")
          /\ pathIdx' = 1
          /\ remote_home' = NoHome
          /\ lookups' = 0
          /\ syncPc' = IF any_tilde(source.paths) THEN "home" ELSE "paths"
          /\ UNCHANGED <<reports, srcIdx>>
       \/ /\ fault.kind = "mkdir"
          /\ collect(SyncReport_failed(source.name, "CreateDirFailed"))
          /\ lookups' = 0
          /\ UNCHANGED <<report, pathIdx, remote_home>>
    /\ UNCHANGED <<sources, hasRsync, fault, mirror, cmd>>
    /\ SyFrame

\* lines 222-253, 315-322: the remote shell prints $HOME, or the lookup fails
get_remote_home ==
    /\ syncPc = "home"
    /\ remote_home' \in {HomeDir, NoHome}
    /\ lookups' = lookups + 1
    /\ syncPc' = "paths"
    /\ UNCHANGED <<sources, hasRsync, fault, srcIdx, pathIdx, report, reports, mirror, cmd>>
    /\ SyFrame

\* lines 363-499
sync_path_rsync ==
    /\ syncPc = "paths"
    /\ report.method = "rsync"
    /\ pathIdx <= Len(source.paths)
    /\ LET remote_path == source.paths[pathIdx]
           expanded_path == expand_tilde_with_home(remote_path, remote_home)
           local_path == <<source.name, path_to_safe_dirname(expanded_path)>>
           args == rsync_args(<<source.host, expanded_path>>, local_path)
       IN  \/ /\ fault.kind = "mkdir"
              /\ path_done_keep_going(
                    PathSyncResult(remote_path, local_path, 0, FALSE,
                                   "Failed to create directory"))
              /\ UNCHANGED <<mirror, cmd>>
           \/ /\ fault.kind = "spawn"
              /\ cmd' = args
              /\ path_done_keep_going(
                    PathSyncResult(remote_path, local_path, 0, FALSE,
                                   "Failed to execute rsync"))
              /\ UNCHANGED mirror
           \/ /\ fault.kind = "exit"
              /\ cmd' = args
              /\ path_done_keep_going(
                    PathSyncResult(remote_path, local_path, 0, FALSE,
                                   rsync_error_msg(fault.stderr)))
              /\ UNCHANGED mirror
           \/ /\ cmd' = args
              /\ \E sent \in SUBSET RemoteFiles :
                    /\ mirror' = rsync(args, local_path[1], local_path[2], sent)
                    /\ path_done_keep_going(
                          PathSyncResult(remote_path, local_path, Cardinality(sent),
                                         TRUE, "none"))
    /\ UNCHANGED <<sources, hasRsync, fault, syncPc, srcIdx, remote_home, lookups, reports>>
    /\ SyFrame

\* lines 505-520
sync_path_sftp ==
    /\ syncPc = "paths"
    /\ report.method = "sftp"
    /\ pathIdx <= Len(source.paths)
    /\ path_done_keep_going(
          PathSyncResult(source.paths[pathIdx],
                         <<source.name, path_to_safe_dirname(source.paths[pathIdx])>>,
                         0, FALSE, "SFTP fallback not yet implemented"))
    /\ UNCHANGED <<sources, hasRsync, fault, syncPc, srcIdx, remote_home, lookups, reports,
                   mirror, cmd>>
    /\ SyFrame

\* lines 337-338, 351-352: sync_source returns the report to sync_all
sync_source_return ==
    /\ syncPc = "paths"
    /\ pathIdx > Len(source.paths)
    /\ collect(report)
    /\ UNCHANGED <<sources, hasRsync, fault, pathIdx, remote_home, lookups, report,
                   mirror, cmd>>
    /\ SyFrame

\* line 354: sync_all returns the collected reports
sync_all_return ==
    /\ syncPc = "next"
    /\ srcIdx > Len(sources)
    /\ syncPc' = "done"
    /\ UNCHANGED <<sources, hasRsync, fault, srcIdx, pathIdx, remote_home, lookups, report,
                   reports, mirror, cmd>>
    /\ SyFrame

SyNext ==
    \/ sync_source_reject
    \/ sync_source_start
    \/ get_remote_home
    \/ sync_path_rsync
    \/ sync_path_sftp
    \/ sync_source_return
    \/ sync_all_return

(***************************************************************************)
(* The inverted index on disk (search/tantivy.rs) and SearchClient::open   *)
(* (search/query.rs).  A file's text is a sequence of tokens here, the     *)
(* schema hash being one token.                                            *)
(***************************************************************************)
\* number of documents an index holds
MaxDocs == 2
\* number of open_or_create calls explored
MaxOpens == 2

\* line 12
SCHEMA_HASH == <<"tantivy-schema-v4-edge-ngram-preview">>

\* line 64: format!("{{\"schema_hash\":\"{}\"}}", hash)
SentinelText(hash) == <<"{\"schema_hash\":\"">> \o hash \o <<"\"}">>

\* the schema hash a sentinel file records
SentinelHash(text) == SubSeq(text, 2, Len(text) - 1)

\* schema_hash.json is absent
NoSentinel == <<>>

\* what schema_hash.json can hold: nothing, this build's hash, the hash of an
\* earlier build, the hash of a later build that extends this build's
Sentinels ==
    {NoSentinel,
     SentinelText(SCHEMA_HASH),
     SentinelText(<<"tantivy-schema-v3">>),
     SentinelText(SCHEMA_HASH \o <<"-v2">>)}

NoDir == [exists |-> FALSE, sentinel |-> NoSentinel, meta |-> FALSE, docs |-> 0]

NoHandle == [open |-> FALSE, pending |-> 0]

NoOpen == [result |-> "none", rebuilt |-> FALSE, sentinelBefore |-> NoSentinel,
           docsBefore |-> 0, docsAfter |-> 0, calls |-> 0]

NoClient == [result |-> "unopened", reader |-> FALSE, sqlite |-> FALSE,
             indexBefore |-> FALSE, dbBefore |-> FALSE]

\* Index::open_in_dir(index_path), fields_from_schema and reader() succeed
index_openable(dir) == dir.exists /\ dir.meta

\* rusqlite Connection::open (read-write, create): fails only when the file
\* cannot be opened or created
connection_open_ok(file) == file # "nodir"

\* an index directory left by some build, a database path and what is there
IxInit ==
    /\ indexDir \in {NoDir} \cup
          {[exists |-> TRUE, sentinel |-> s, meta |-> m, docs |-> IF m THEN d ELSE 0] :
              s \in Sentinels, m \in BOOLEAN, d \in 0..MaxDocs}
    /\ handle = NoHandle
    /\ ooc = NoOpen
    /\ dbPath \in {"none", "some"}
    /\ dbFile \in {"absent", "db", "nodir"}
    /\ client = NoClient

IxIdle ==
    /\ indexDir = NoDir
    /\ handle = NoHandle
    /\ ooc = NoOpen
    /\ dbPath = "none"
    /\ dbFile = "absent"
    /\ client = NoClient

\* tantivy.rs lines 35-76
open_or_create ==
    /\ ~handle.open
    /\ ooc.calls < MaxOpens
    /\ LET needs_rebuild ==
               ~(indexDir.sentinel # NoSentinel /\ contains(indexDir.sentinel, SCHEMA_HASH))
           kept == IF needs_rebuild THEN NoDir ELSE indexDir
           docs == IF kept.meta THEN kept.docs ELSE 0
       IN  /\ indexDir' = [exists |-> TRUE, sentinel |-> SentinelText(SCHEMA_HASH),
                           meta |-> TRUE, docs |-> docs]
           /\ ooc' = [result |-> "ok", rebuilt |-> needs_rebuild,
                      sentinelBefore |-> indexDir.sentinel,
                      docsBefore |-> indexDir.docs, docsAfter |-> docs,
                      calls |-> ooc.calls + 1]
    /\ handle' = [open |-> TRUE, pending |-> 0]
    /\ UNCHANGED <<dbPath, dbFile, client>>
    /\ IxFrame

\* tantivy.rs lines 96-126: one more document in the writer
add_messages ==
    /\ handle.open
    /\ indexDir.docs + handle.pending < MaxDocs
    /\ handle' = [handle EXCEPT !.pending = @ + 1]
    /\ UNCHANGED <<indexDir, ooc, dbPath, dbFile, client>>
    /\ IxFrame

\* tantivy.rs lines 87-90
commit ==
    /\ handle.open
    /\ handle.pending > 0
    /\ indexDir' = [indexDir EXCEPT !.docs = @ + handle.pending]
    /\ handle' = [handle EXCEPT !.pending = 0]
    /\ UNCHANGED <<ooc, dbPath, dbFile, client>>
    /\ IxFrame

\* the TantivyIndex is dropped; what its writer had not committed is lost
drop_index ==
    /\ handle.open
    /\ handle' = NoHandle
    /\ UNCHANGED <<indexDir, ooc, dbPath, dbFile, client>>
    /\ IxFrame

\* query.rs lines 104-123
SearchClient_open ==
    /\ client.result = "unopened"
    /\ LET tantivy == index_openable(indexDir)
           sqlite == dbPath = "some" /\ connection_open_ok(dbFile)
       IN  /\ client' = [result |-> IF ~tantivy /\ ~sqlite THEN "none" ELSE "some",
                         reader |-> tantivy, sqlite |-> sqlite,
                         indexBefore |-> index_openable(indexDir),
                         dbBefore |-> (dbPath = "some" /\ dbFile = "db")]
           /\ dbFile' = IF sqlite /\ dbFile = "absent" THEN "empty" ELSE dbFile
    /\ UNCHANGED <<indexDir, handle, ooc, dbPath>>
    /\ IxFrame

IxNext ==
    \/ open_or_create
    \/ add_messages
    \/ commit
    \/ drop_index
    \/ SearchClient_open

(***************************************************************************)
(* Sync status persistence (sources/sync.rs, SyncStatus).  A caller builds *)
(* a report with SyncReport::new / failed / add_path_result and hands it   *)
(* to SyncStatus::update.  The clock and the durations are left out.       *)
(***************************************************************************)
\* number of path results a report holds
MaxPaths == 2

\* the source names a status file has entries for
StatusNames == {"laptop", "server"}

\* what one path's sync can report: success, files, bytes, error
PathOutcomes ==
    {[PathSyncResult(<<>>, <<>>, 1, TRUE, "none") EXCEPT !.bytes_transferred = 3],
     PathSyncResult(<<>>, <<>>, 0, TRUE, "none"),
     PathSyncResult(<<>>, <<>>, 0, FALSE, "Connection refused"),
     [PathSyncResult(<<>>, <<>>, 2, FALSE, "rsync failed") EXCEPT !.bytes_transferred = 5]}

RECURSIVE sum(_)
\* Iterator::sum
sum(numbers) == IF numbers = <<>> THEN 0 ELSE Head(numbers) + sum(Tail(numbers))

\* lines 148-150
total_files(r) ==
    sum([j \in 1..Len(r.path_results) |-> r.path_results[j].files_transferred])

\* lines 153-155
total_bytes(r) ==
    sum([j \in 1..Len(r.path_results) |-> r.path_results[j].bytes_transferred])

\* a count that takes the failed paths for the successful ones
successful_paths_failed(r) ==
    Cardinality({j \in 1..Len(r.path_results) : ~r.path_results[j].success})

\* lines 158-160
successful_paths(r) ==
    Cardinality({j \in 1..Len(r.path_results) : r.path_results[j].success})

\* lines 645-651, 653-658: the Some(error) of the path results, in order
errors_of(r) ==
    SelectSeq([j \in 1..Len(r.path_results) |-> r.path_results[j].error],
              LAMBDA e : e # "none")

\* SourceSyncInfo
SourceSyncInfo(kind, errors, files, bytes) ==
    [present |-> TRUE, last_result |-> [kind |-> kind, errors |-> errors],
     files_synced |-> files, bytes_transferred |-> bytes]

\* a name the map has no entry for
NoInfo ==
    [present |-> FALSE, last_result |-> [kind |-> "Skipped", errors |-> <<>>],
     files_synced |-> 0, bytes_transferred |-> 0]

\* lines 641-659: the SyncResult of a report
sync_result_kind(r) ==
    IF r.all_succeeded THEN "Success"
    ELSE IF successful_paths(r) > 0 THEN "PartialFailure"
    ELSE "Failed"

\* lines 635-669: the entry update inserts
updated_info(r) ==
    SourceSyncInfo(sync_result_kind(r),
                   IF r.all_succeeded THEN <<>> ELSE errors_of(r),
                   total_files(r), total_bytes(r))

\* SyncStatus::default
EmptyStatus == [n \in StatusNames |-> NoInfo]

NoUpdate == [source_name |-> "", before |-> EmptyStatus]

\* a status as loaded from disk: empty, or holding entries of earlier syncs
StInit ==
    /\ syncStatus \in {EmptyStatus,
                   [EmptyStatus EXCEPT !["laptop"] = SourceSyncInfo("Success", <<>>, 4, 9)],
                   [n \in StatusNames |->
                        SourceSyncInfo("Failed", <<"Connection refused">>, 0, 0)]}
    /\ statusReport = SyncReport_new("", "rsync")
    /\ statusPc = "idle"
    /\ updateCall = NoUpdate

\* the status at rest, for the specifications of the other subsystems
StIdle ==
    /\ syncStatus = EmptyStatus
    /\ statusReport = SyncReport_new("", "rsync")
    /\ statusPc = "done"
    /\ updateCall = NoUpdate

\* lines 114-122: the caller opens a report
report_new ==
    /\ statusPc = "idle"
    /\ \E n \in StatusNames, m \in {"rsync", "sftp"} : statusReport' = SyncReport_new(n, m)
    /\ statusPc' = "building"
    /\ UNCHANGED <<syncStatus, updateCall>>
    /\ StFrame

\* lines 125-137: the caller holds the report of a sync that could not start
report_failed ==
    /\ statusPc = "idle"
    /\ \E n \in StatusNames, e \in {"NoHost", "NoPaths"} :
          statusReport' = SyncReport_failed(n, e)
    /\ statusPc' = "building"
    /\ UNCHANGED <<syncStatus, updateCall>>
    /\ StFrame

\* lines 140-145
report_add_path_result ==
    /\ statusPc = "building"
    /\ Len(statusReport.path_results) < MaxPaths
    /\ \E res \in PathOutcomes : statusReport' = add_path_result(statusReport, res)
    /\ UNCHANGED <<syncStatus, statusPc, updateCall>>
    /\ StFrame

\* lines 635-669
SyncStatus_update ==
    /\ statusPc = "building"
    /\ \E n \in StatusNames :
          /\ syncStatus' = [syncStatus EXCEPT ![n] = updated_info(statusReport)]
          /\ updateCall' = [source_name |-> n, before |-> syncStatus]
    /\ statusPc' = "updated"
    /\ UNCHANGED statusReport
    /\ StFrame

StNext ==
    \/ report_new
    \/ report_failed
    \/ report_add_path_result
    \/ SyncStatus_update

(***************************************************************************)
(* Specifications.                                                         *)
(***************************************************************************)
InitDownload == DlInit /\ SrIdle /\ CnIdle /\ SyIdle /\ IxIdle /\ StIdle

SpecDownload == InitDownload /\ [][DlNext]_vars

InitSearch == SrInit /\ DlIdle /\ CnIdle /\ SyIdle /\ IxIdle /\ StIdle

SpecSearch == InitSearch /\ [][SrNext]_vars

\* deduplicate_hits alone, applied to every content of the two stores
InitDedup == SrInit /\ DlIdle /\ CnIdle /\ SyIdle /\ IxIdle /\ StIdle

DdNext == add_row \/ add_doc \/ dedup_call

SpecDedup == InitDedup /\ [][DdNext]_vars

InitConnectors == CnInit /\ DlIdle /\ SrIdle /\ SyIdle /\ IxIdle /\ StIdle

SpecConnectors == InitConnectors /\ [][CnNext]_vars

InitFixtures == FxInit /\ DlIdle /\ SrIdle /\ SyIdle /\ IxIdle /\ StIdle

FxNext == CnNext \/ artifact_unreadable \/ codex_write_journal \/ aider_write_transcript

SpecFixtures == InitFixtures /\ [][FxNext]_vars

InitSync == SyInit /\ DlIdle /\ SrIdle /\ CnIdle /\ IxIdle /\ StIdle

SpecSync == InitSync /\ [][SyNext]_vars

InitIndex == IxInit /\ DlIdle /\ SrIdle /\ CnIdle /\ SyIdle /\ StIdle

SpecIndex == InitIndex /\ [][IxNext]_vars

InitStatus == StInit /\ DlIdle /\ SrIdle /\ CnIdle /\ SyIdle /\ IxIdle

SpecStatus == InitStatus /\ [][StNext]_vars

(***************************************************************************)
(* Claims about the downloader.                                            *)
(***************************************************************************)

\* C1: no request is sent by the downloader while the model state is NeedsConsent:
\* download() and the per-file request are refused in that state.
C1_NoRequestInNeedsConsent == ~hist.reqInNeedsConsent

\* C2: a cancellation signalled after download() was invoked and before the last
\* file's verification starts is never lost: download() ends with an error instead
\* of completing, and the target is not installed.  (The claim names the error,
\* Cancelled; the formula leaves the error open, so that a failure that happens to
\* follow the signal is not held against the code.)
C2_CancelNeverLost ==
    (pc = "done" /\ hist.cancelSignalled) =>
        (result # "Ok" /\ target = hist.targetBefore)

\* C3: while download() replaces a Ready installation, check_model_installed(target)
\* is Ready at every point of the install, and after a failure of any install step.
C3_InstallAtomicForObservers ==
    hist.wasReady => check_model_installed(target) = "Ready"

\* the request download_file sends when the destination already holds e bytes
ResumeRequest(e) == [file |-> idx, range |-> e]

\* C18: within one download_file call, (a) with an existing partial of size E,
\* 0 < E < expected size, and a 206 answer, exactly one request was sent, it carries
\* Range: bytes=E-, and the destination keeps its first E bytes and grows by the body
\* read so far; (b) when E equals the expected size the call returns Ok without a
\* request; (c) with a 200 answer the destination holds exactly the body read so far,
\* counted from byte 0.
C18_ResumeProtocol ==
    /\ (pc = "df_loop" /\ resp.status = 206 /\ dfExisting > 0 /\ dfExisting < FileSize(idx)) =>
          /\ netlog = <<ResumeRequest(dfExisting)>>
          /\ tempFiles[idx].size >= dfExisting
          /\ tempFiles[idx].size + resp.left = FileSize(idx)
    /\ (pc = "verify" /\ dfExisting = FileSize(idx)) => netlog = <<>>
    /\ (pc = "df_loop" /\ resp.status = 200) =>
          /\ Len(netlog) = 1
          /\ tempFiles[idx].size + resp.left = FileSize(idx)

\* a resumed body was read to its end on top of a partial, and a 200 answer to a
\* Range request was read to its end over the truncated destination
C18_Witness ==
    /\ pc = "df_loop"
    /\ resp.left = 0
    /\ dfExisting > 0
    /\ dfExisting < FileSize(idx)
    /\ resp.status = 206
    /\ tempFiles[idx].size = FileSize(idx)
    /\ netlog = <<ResumeRequest(dfExisting)>>

\* C19: a further attempt at a file follows a NetworkError only, a file is retried at
\* most three times, and the k-th retry is preceded by a sleep of 5 * 2^(k-1) seconds.
C19_RetryOnlyNetworkFailures ==
    /\ (pc = "df_start" /\ attempt > 0) => last_error = "NetworkError"
    /\ Len(sleeps) <= 3
    /\ \A k \in 1..Len(sleeps) : sleeps[k] = BackoffDelay(k)

\* C23: at the start of each retry of a file the byte counter equals its value before
\* that file; whenever a file's download succeeds the counter equals that value plus
\* the file's final size; after all files succeed it equals the manifest's total size.
C23_ByteCounterNeverDoubleCounts ==
    /\ (pc = "df_start" /\ attempt > 0) => bytes_downloaded = bytes_before_file
    /\ pc = "verify" => bytes_downloaded = bytes_before_file + tempFiles[idx].size
    /\ (pc = "file_start" /\ idx > NFiles) => bytes_downloaded = total_size

\* the outcomes of download() that C28 names
FailuresBeforeInstall ==
    {"Cancelled", "NetworkError", "HttpError", "Timeout", "VerificationFailed"}

\* the file holds the published bytes: what the manifest's digest attests
PublishedBytes(i) ==
    tempFiles[i].present /\ tempFiles[i].good /\ tempFiles[i].size = FileSize(i)

\* C28: when download() returns Cancelled, a network or HTTP error, a timeout or
\* VerificationFailed the target is as it was before the call, and at the moment the
\* install starts to touch the target every manifest file is in the temporary
\* directory with the published bytes.
C28_TargetUntouchedOnFailure ==
    /\ (pc = "done" /\ result \in FailuresBeforeInstall) => target = hist.targetBefore
    /\ pc \in {"entry", "file_start", "attempt_start", "df_start", "df_send", "df_loop",
               "after_retries", "verify", "hash"} => target = hist.targetBefore
    /\ pc \in {"install_remove", "install_rename"} => \A i \in 1..NFiles : PublishedBytes(i)

\* download() over an installed bundle returned VerificationFailed after a corrupted
\* body was read to its end
C28_Witness ==
    /\ pc = "done"
    /\ result = "VerificationFailed"
    /\ hist.wasReady
    /\ target = ReadyTarget("old")

(***************************************************************************)
(* Claims about the search client.                                         *)
(***************************************************************************)
IsPrefix(a, b) == Len(a) <= Len(b) /\ SubSeq(b, 1, Len(a)) = a

\* C5: for every store content, query, N >= 1 and M >= 0, search(Q, {}, N, 0) is a
\* prefix of search(Q, {}, N + M, 0), for both backends.
C5_PaginationPrefix ==
    call.op = "search" => IsPrefix(page, pageMore)

\* C6 as stated: deduplicate_hits returns exactly one hit for each
\* normalized-whitespace key that occurs among the non-noise input hits, that hit has
\* the highest score among the input hits with that key, no two output hits share a
\* key and no output hit is tool-invocation noise.
C6_BestAmongAllInputHits ==
    call.op = "dedup" =>
        LET in == HitsOf(call.backend)
            kept == {k \in 1..Len(in) : ~NoiseOf[in[k].content]}
        IN  /\ \A k \in kept :
                \E o \in 1..Len(dedupOut) :
                    /\ KeyOf[dedupOut[o].content] = KeyOf[in[k].content]
                    /\ \A j \in 1..Len(in) :
                          KeyOf[in[j].content] = KeyOf[in[k].content]
                              => dedupOut[o].score >= in[j].score
            /\ \A o \in 1..Len(dedupOut) :
                /\ \E k \in kept : in[k] = dedupOut[o]
                /\ ~NoiseOf[dedupOut[o].content]
            /\ \A o1, o2 \in 1..Len(dedupOut) :
                KeyOf[dedupOut[o1].content] = KeyOf[dedupOut[o2].content] => o1 = o2

\* C6, amended: deduplicate_hits returns exactly one hit for each
\* normalized-whitespace key that occurs among the non-noise input hits, that hit is
\* one of them and has the highest score among the NON-NOISE input hits with that
\* key (a noise hit is dropped before keys are compared, whatever its score), no two
\* output hits share a key and no output hit is tool-invocation noise.
C6_DedupKeepsBestPerKey ==
    call.op = "dedup" =>
        LET in == HitsOf(call.backend)
            kept == {k \in 1..Len(in) : ~NoiseOf[in[k].content]}
        IN  /\ \A k \in kept :
                \E o \in 1..Len(dedupOut) :
                    /\ KeyOf[dedupOut[o].content] = KeyOf[in[k].content]
                    /\ dedupOut[o].score >= in[k].score
            /\ \A o \in 1..Len(dedupOut) :
                /\ \E k \in kept : in[k] = dedupOut[o]
                /\ ~NoiseOf[dedupOut[o].content]
            /\ \A o1, o2 \in 1..Len(dedupOut) :
                KeyOf[dedupOut[o1].content] = KeyOf[dedupOut[o2].content] => o1 = o2

\* a call of deduplicate_hits on hits of which two share a key with different scores
\* and one is noise
C6_Witness ==
    /\ call.op = "dedup"
    /\ LET in == HitsOf(call.backend) IN
       /\ \E a, b \in 1..Len(in) :
             /\ a < b
             /\ ~NoiseOf[in[a].content]
             /\ KeyOf[in[a].content] = KeyOf[in[b].content]
             /\ in[a].content # in[b].content
             /\ in[a].score < in[b].score
       /\ \E k \in 1..Len(in) : NoiseOf[in[k].content]
       /\ Len(dedupOut) >= 2

\* the contents of the hits a backend holds
ContentsIn(hits) == {hits[k].content : k \in 1..Len(hits)}

\* C15: a matching message committed to only one of the two backends is
\* returned by search, whatever the other backend returns (the limit being
\* large enough for every hit of both stores).
C15_OneBackendMessagesSurface ==
    (/\ call.op = "search"
     /\ hasSqlite /\ hasReader
     /\ Len(sqliteRows) + Len(tantivyDocs) <= call.limit + call.more)
    => \A c \in Contents :
          (/\ ~NoiseOf[c]
           /\ (c \in ContentsIn(sqliteRows)) # (c \in ContentsIn(tantivyDocs)))
          => \E k \in 1..Len(pageMore) : KeyOf[pageMore[k].content] = KeyOf[c]

\* the artifact is a line-delimited journal
IsJournal(path) == ends_with(path, <<".", "j", "s", "o", "n", "l">>)

\* message.idx of the message a hit stands for
MessageIdx(hit) == HitsOf(hit.backend)[hit.id].idx

\* C27: every hit for a message of a line-delimited journal carries
\* line_number = message.idx + 1 and every hit for a message of another artifact
\* carries line_number = None, whichever backend produced it.
C27_LineNumberOnlyForJournals ==
    call.op = "search" =>
        \A k \in 1..Len(pageMore) :
            pageMore[k].line_number =
                IF IsJournal(pageMore[k].source_path)
                THEN MessageIdx(pageMore[k]) + 1
                ELSE None

\* the backend that served the last search
ServingBackend ==
    IF hasSqlite /\ ~queryEmpty /\ sqliteRows # <<>> THEN sqliteRows
    ELSE IF hasReader THEN tantivyDocs
    ELSE <<>>

\* the distinct non-noise matching hits of the serving backend, by key
DistinctMatches ==
    {KeyOf[ServingBackend[k].content] :
        k \in {j \in 1..Len(ServingBackend) : ~NoiseOf[ServingBackend[j].content]}}

\* C29: search(query, {}, limit, 0) returns fewer than limit hits only when fewer
\* than limit distinct non-noise matching hits exist in the backend that served it.
C29_ShortPageOnlyWhenExhausted ==
    call.op = "search" =>
        (Len(page) < call.limit => Cardinality(DistinctMatches) < call.limit)

(***************************************************************************)
(* Claims about the connectors.                                            *)
(***************************************************************************)
\* the messages whose content is not blank, as (content, timestamp) pairs
Said(messages) ==
    LET kept == SelectSeq(messages, LAMBDA m : trim(m.content) # <<>>) IN
    [i \in 1..Len(kept) |-> [content |-> kept[i].content, created_at |-> kept[i].created_at]]

\* the records of an artifact that carry a text that is not blank, as such pairs
Written(recs) ==
    LET kept == SelectSeq(recs, LAMBDA r : trim(r.text) # <<>>) IN
    [i \in 1..Len(kept) |-> [content |-> kept[i].text, created_at |-> kept[i].ts]]

PassesFileCheck(mtime) == ctx.since_ts = None \/ mtime >= ctx.since_ts

\* scan returned a conversation of this artifact and identifier with these messages
Emitted(path, id, said) ==
    \E i \in 1..Len(scanOut.convs) :
        /\ scanOut.convs[i].source_path = path
        /\ scanOut.convs[i].external_id = id
        /\ Said(scanOut.convs[i].messages) = said

CodexJournalWritten(p) ==
    IF \E i \in 1..Len(codexHome[p].recs) : codexHome[p].recs[i].kind = "garbage"
    THEN <<>>
    ELSE Written(SelectSeq(codexHome[p].recs, LAMBDA r : r.kind \in TextKinds))

ComposerWritten(val) ==
    LET bubbles == Written(Concat(val.tabs) \o Concat(val.map)) IN
    IF bubbles = <<>> /\ trim(val.text) # <<>>
    THEN <<[content |-> val.text, created_at |-> val.createdAt]>>
    ELSE bubbles

\* C4: a scan never filters at message level: for any since_ts watermark, when a
\* journal (codex) or database (cursor) artifact passes the file-level
\* modified-since check, the conversation scan returns for it holds every parseable
\* message with non-blank text, in artifact order, whatever the messages' own
\* timestamps are relative to since_ts.
C4_NoMessageLevelFiltering ==
    /\ (scanOut.ok /\ agent = "codex") =>
          \A p \in 1..Len(CodexPaths) :
              (/\ codexHome[p].exists
               /\ PassesFileCheck(codexHome[p].mtime)
               /\ CodexJournalWritten(p) # <<>>)
              => \E id \in {scanOut.convs[i].external_id : i \in 1..Len(scanOut.convs)} :
                    Emitted(CodexPaths[p], id, CodexJournalWritten(p))
    /\ (scanOut.ok /\ agent = "cursor") =>
          \A d \in 1..Len(CursorDbs) :
              (cursorBase[d].exists /\ PassesFileCheck(cursorBase[d].mtime))
              => /\ ComposerWritten(cursorBase[d].kv) # <<>>
                    => Emitted(CursorDbs[d], <<"u", "1">>, ComposerWritten(cursorBase[d].kv))
                 /\ Written(Concat(cursorBase[d].item.tabs)) # <<>>
                    => Emitted(CursorDbs[d], AichatId,
                               Written(Concat(cursorBase[d].item.tabs)))

\* a journal got A, then B later; the scan with the watermark between them
\* returns A, B
C4_Witness ==
    /\ scanOut.ok /\ agent = "codex"
    /\ ctx.since_ts # None
    /\ \E i \in 1..Len(scanOut.convs) :
          LET m == scanOut.convs[i].messages IN
          /\ Len(m) = 2
          /\ m[1].content = <<"A">> /\ m[2].content = <<"B">>
          /\ m[1].created_at < ctx.since_ts
          /\ m[2].created_at >= ctx.since_ts

\* C7: every conversation returned by a connector's scan has at least one message.
C7_ConversationsHaveMessages ==
    scanOut.ok =>
        \A i \in 1..Len(scanOut.convs) : Len(scanOut.convs[i].messages) >= 1

\* C8: in every conversation returned by a connector's scan, messages[i].idx = i for
\* every (zero-based) i.
C8_IndicesDenseFromZero ==
    scanOut.ok =>
        \A i \in 1..Len(scanOut.convs) :
            \A j \in 1..Len(scanOut.convs[i].messages) :
                scanOut.convs[i].messages[j].idx = j - 1

\* C9: every message of every conversation returned by a connector's scan has
\* content that is not empty after trimming whitespace.
C9_ContentNotBlank ==
    scanOut.ok =>
        \A i \in 1..Len(scanOut.convs) :
            \A j \in 1..Len(scanOut.convs[i].messages) :
                trim(scanOut.convs[i].messages[j].content) # <<>>

\* C10: within one scan of one connector over one source root, no two returned
\* conversations carry the same (agent_slug, external_id).
C10_ExternalIdsDistinct ==
    scanOut.ok =>
        \A i, j \in 1..Len(scanOut.convs) :
            (/\ scanOut.convs[i].agent_slug = scanOut.convs[j].agent_slug
             /\ scanOut.convs[i].external_id = scanOut.convs[j].external_id)
            => i = j

\* the root handed to scan has the shape the connector expects
ExpectedShape(a, root) ==
    CASE a = "codex" -> is_codex_dir(root)
      [] a = "cursor" -> looks_like_base(root)
      [] OTHER -> FALSE

\* the connector's default system location
DefaultLocation(a) ==
    CASE a = "codex" -> CodexHomeDir
      [] a = "cline" -> ClineStorageRoot
      [] a = "cursor" -> CursorAppSupport
      [] OTHER -> NoRoot

\* C16: given a data-root override that lacks the connector's expected
\* shape, codex, cline and cursor return no conversations and do not read
\* their default system location.
C16_OverrideNeverFallsBack ==
    (/\ scanOut # NoScan
     /\ agent \in {"codex", "cline", "cursor"}
     /\ ctx.explicit
     /\ ~ExpectedShape(agent, ctx.data_root))
    => /\ scanOut.convs = <<>>
       /\ scanOut.root # DefaultLocation(agent)

\* the conversations of the artifacts that can be read
ReadableConvs ==
    CASE agent = "codex" ->
            LET files == rollout_files(codex_home(ctx))
                readable == SelectSeq(files, LAMBDA p : <<"codex", p, "">> \notin unreadable)
            IN  Concat([k \in 1..Len(readable) |-> codex_file(ctx, readable[k])])
      [] agent = "cline" ->
            Concat([k \in 1..Len(ClineTasks) |->
                IF \E f \in {"ui", "api"} : <<"cline", k, f>> \in unreadable
                THEN <<>> ELSE cline_task(k)])
      [] OTHER -> scanOut.convs

\* C17: a malformed record or an unreadable or malformed artifact never
\* aborts a scan: scan succeeds and returns the conversations of every
\* other readable artifact under the root.
C17_ScanNeverAborts ==
    scanOut # NoScan =>
        /\ scanOut.ok
        /\ scanOut.convs = ReadableConvs

\* the first rollout file holds the journal of scenario 2 and no other exists
JournalScanned ==
    /\ scanOut.ok
    /\ agent = "codex"
    /\ ctx = NoCtx
    /\ codexHome[1].recs = EnvelopeJournal
    /\ ~codexHome[2].exists

\* C26: for the journal of scenario 2 the scan returns exactly one conversation with
\* workspace /w, the messages (user, "hi") and (assistant, "thinking", author
\* reasoning), started_at the first line's timestamp and ended_at the last line's.
C26_EnvelopeJournalScenario ==
    JournalScanned =>
        /\ Len(scanOut.convs) = 1
        /\ scanOut.convs[1].workspace = <<"/", "w">>
        /\ Len(scanOut.convs[1].messages) = 2
        /\ scanOut.convs[1].messages[1].role = "user"
        /\ scanOut.convs[1].messages[1].content = <<"h", "i">>
        /\ scanOut.convs[1].messages[2].role = "assistant"
        /\ scanOut.convs[1].messages[2].content = <<"t", "h", "i", "n", "k", "i", "n", "g">>
        /\ scanOut.convs[1].messages[2].author = "reasoning"
        /\ scanOut.convs[1].started_at = 0
        /\ scanOut.convs[1].ended_at = 3

\* the roles and the contents of a conversation's messages, in order
RolesOf(conv) == [j \in 1..Len(conv.messages) |-> conv.messages[j].role]

ContentsOf(conv) == [j \in 1..Len(conv.messages) |-> conv.messages[j].content]

\* C25: every message the markdown parser emits has role user or assistant,
\* consecutive messages have different roles and indices are dense from 0; the
\* two-turn transcript gives user, assistant, user, assistant with contents hello,
\* world reply, second, second reply.
C25_AlternatingUserAssistant ==
    (scanOut.ok /\ agent = "aider") =>
        /\ \A i \in 1..Len(scanOut.convs) :
              /\ \A j \in 1..Len(scanOut.convs[i].messages) :
                    /\ scanOut.convs[i].messages[j].role \in {"user", "assistant"}
                    /\ scanOut.convs[i].messages[j].idx = j - 1
              /\ \A j \in 1..(Len(scanOut.convs[i].messages) - 1) :
                    scanOut.convs[i].messages[j].role # scanOut.convs[i].messages[j + 1].role
        /\ (aiderRoot[1].recs = TwoTurnTranscript /\ ctx = NoCtx) =>
              /\ Len(scanOut.convs) >= 1
              /\ RolesOf(scanOut.convs[1]) = <<"user", "assistant", "user", "assistant">>
              /\ ContentsOf(scanOut.convs[1]) =
                    << <<"h", "e", "l", "l", "o">>, TwoTurnTranscript[2],
                       <<"s", "e", "c", "o", "n", "d">>, TwoTurnTranscript[4] >>

\* a <= b where both are present
LeqWhenPresent(a, b) == (a # None /\ b # None) => a <= b

\* C22: every conversation returned by a scan has started_at <= ended_at when both
\* are present, and every message's created_at, when present, lies between them.
C22_TimestampsOrdered ==
    scanOut.ok =>
        \A i \in 1..Len(scanOut.convs) :
            /\ LeqWhenPresent(scanOut.convs[i].started_at, scanOut.convs[i].ended_at)
            /\ \A j \in 1..Len(scanOut.convs[i].messages) :
                  /\ LeqWhenPresent(scanOut.convs[i].started_at,
                                    scanOut.convs[i].messages[j].created_at)
                  /\ LeqWhenPresent(scanOut.convs[i].messages[j].created_at,
                                    scanOut.convs[i].ended_at)

(***************************************************************************)
(* Claims about the remote sync engine.                                    *)
(***************************************************************************)
\* the report is the one sync_all substitutes when sync_source returned an error
Substituted(r) ==
    /\ Len(r.path_results) = 1
    /\ r.path_results[1].error \in {"NoHost", "NoPaths", "CreateDirFailed"}

\* C11: sync_all returns one report per input source, in input order; every
\* report a started sync_source produced holds one result per configured
\* path, in configuration order, whichever paths or sources failed.
C11_FailureIsolation ==
    /\ Len(reports) <= Len(sources)
    /\ syncPc = "done" => Len(reports) = Len(sources)
    /\ \A i \in 1..Len(reports) :
          /\ reports[i].source_name = sources[i].name
          /\ ~Substituted(reports[i]) =>
                /\ Len(reports[i].path_results) = Len(sources[i].paths)
                /\ \A j \in 1..Len(sources[i].paths) :
                      reports[i].path_results[j].remote_path = sources[i].paths[j]

\* a failed source is followed by a started one whose first path failed and
\* whose second path succeeded
C11_Witness ==
    /\ syncPc = "done"
    /\ Len(reports) = 2
    /\ Substituted(reports[1])
    /\ ~Substituted(reports[2])
    /\ Len(reports[2].path_results) = 2
    /\ ~reports[2].path_results[1].success
    /\ reports[2].path_results[2].success

\* C12: no step of the engine removes a file from a mirror directory, and no
\* transfer command carries a delete option.
C12_Additive ==
    [][/\ mirror \subseteq mirror'
       /\ \A k \in 1..Len(cmd'.flags) : cmd'.flags[k] # "--delete"]_vars

\* a path was transferred into a directory that already held a file while the
\* remote path was empty or the transfer failed, and the file is still there
C12_Witness ==
    /\ Len(report.path_results) = 2
    /\ report.path_results[1].local_path = report.path_results[2].local_path
    /\ report.path_results[1].files_transferred = 1
    /\ report.path_results[2].files_transferred = 0
    /\ report.path_results[2].error \in {"none", "Remote path not found"}
    /\ <<report.path_results[1].local_path[1], report.path_results[1].local_path[2], "f">>
          \in mirror

Digits == <<"0", "1", "2", "3", "4", "5", "6", "7", "8", "9">>

\* the characters of [A-Za-z0-9_.-]
SafeChars ==
    {UpperCase[k] : k \in 1..26} \cup {LowerCase[k] : k \in 1..26}
    \cup {Digits[k] : k \in 1..Len(Digits)} \cup {"_", ".", "-"}

\* the path results the engine has produced for configured paths
PathResults ==
    {res \in UNION {{r.path_results[j] : j \in 1..Len(r.path_results)} :
                      r \in {reports[i] : i \in 1..Len(reports)} \cup {report}} :
        res.local_path # <<>>}

\* C13: path_to_safe_dirname returns a non-empty string made only of
\* characters of [A-Za-z0-9_.-].
C13_SafeDirnameCharacters ==
    \A res \in PathResults :
        /\ res.local_path[2] # <<>>
        /\ \A k \in 1..Len(res.local_path[2]) : res.local_path[2][k] \in SafeChars

\* some configured path begins with '~'
HasTildePath(s) == \E j \in 1..Len(s.paths) : Head(s.paths[j]) = "~"

\* the number of $HOME lookups the claim gives a sync of source s
ExpectedLookups(s) == IF HasTildePath(s) THEN 1 ELSE 0

\* every path synced so far was mirrored under the name its expansion with the
\* one looked-up value gives
HomeReused ==
    \A j \in 1..Len(report.path_results) :
        report.path_results[j].local_path[2] =
            path_to_safe_dirname(
                IF report.method = "rsync"
                THEN expand_tilde_with_home(source.paths[j], remote_home)
                ELSE source.paths[j])

C30_DistinctPathsDistinctDirs ==
    (syncPc = "paths" /\ report.method = "rsync") =>
        \A j, k \in 1..Len(report.path_results) :
            expand_tilde_with_home(source.paths[j], remote_home)
                # expand_tilde_with_home(source.paths[k], remote_home)
            => report.path_results[j].local_path # report.path_results[k].local_path

(***************************************************************************)
(* Claims about the sync status.                                           *)
(***************************************************************************)
\* the report handed to the last update call, its entry, and its path results
UpdatedInfo == syncStatus[updateCall.source_name]

SomePathSucceeded == \E j \in 1..Len(statusReport.path_results) : statusReport.path_results[j].success

SomePathFailed == \E j \in 1..Len(statusReport.path_results) : ~statusReport.path_results[j].success

\* the total of a field over the path results of a report of at most three paths
PathTotal(f(_)) ==
    LET rs == statusReport.path_results
        at(j) == IF j <= Len(rs) THEN f(rs[j]) ELSE 0
    IN  at(1) + at(2) + at(3)

\* the entry holds the sums over the path results and no other entry changed
SumsAndFrame ==
    /\ UpdatedInfo.present
    /\ UpdatedInfo.files_synced = PathTotal(LAMBDA res : res.files_transferred)
    /\ UpdatedInfo.bytes_transferred = PathTotal(LAMBDA res : res.bytes_transferred)
    /\ \A n \in StatusNames \ {updateCall.source_name} : syncStatus[n] = updateCall.before[n]

\* C21 as stated: after update, last_result is Success iff every path succeeded,
\* PartialFailure iff one succeeded and one failed, Failed iff no path succeeded;
\* the sums and the other entries are as the claim says.
C21_ResultKinds ==
    statusPc = "updated" =>
        /\ UpdatedInfo.last_result.kind = "Success" <=> ~SomePathFailed
        /\ UpdatedInfo.last_result.kind = "PartialFailure" <=>
              (SomePathSucceeded /\ SomePathFailed)
        /\ UpdatedInfo.last_result.kind = "Failed" <=> ~SomePathSucceeded
        /\ SumsAndFrame

\* C21: after update with a report built by new / failed / add_path_result,
\* last_result is Success iff every path succeeded (a report without path results
\* included), PartialFailure iff one succeeded and one failed, Failed iff at least
\* one path failed and none succeeded; files_synced and bytes_transferred are the
\* sums over the path results and the entries of the other sources are unchanged.
C21_ResultKindsNonEmpty ==
    statusPc = "updated" =>
        /\ UpdatedInfo.last_result.kind = "Success" <=> ~SomePathFailed
        /\ UpdatedInfo.last_result.kind = "PartialFailure" <=>
              (SomePathSucceeded /\ SomePathFailed)
        /\ UpdatedInfo.last_result.kind = "Failed" <=>
              (SomePathFailed /\ ~SomePathSucceeded)
        /\ SumsAndFrame

\* an entry was replaced by a partial failure while another source's entry stayed
C21_Witness ==
    /\ statusPc = "updated"
    /\ updateCall.source_name = "server"
    /\ updateCall.before["laptop"].present
    /\ updateCall.before["server"].last_result.kind = "Failed"
    /\ UpdatedInfo.last_result.kind = "PartialFailure"
    /\ UpdatedInfo.files_synced = 3
    /\ UpdatedInfo.bytes_transferred = 8

(***************************************************************************)
(* Claims about the index directory and SearchClient::open.                *)
(***************************************************************************)
\* C14: SearchClient::open returns a client if and only if an openable index
\* was at index_path or a relational store existed at db_path when it was
\* called.
C14_ClientIffBackendPresent ==
    client.result # "unopened" =>
        (client.result = "some" <=> (client.indexBefore \/ client.dbBefore))

\* C20: open_or_create reuses the index, documents included, exactly when
\* the sentinel's hash is the compiled-in constant, empties the directory
\* otherwise, leaves a matching sentinel, and does not rebuild when called
\* again.
C20_ReuseExactlyOnMatchingSentinel ==
    ooc.result = "ok" =>
        /\ ~ooc.rebuilt <=> (/\ ooc.sentinelBefore # NoSentinel
                             /\ SentinelHash(ooc.sentinelBefore) = SCHEMA_HASH)
        /\ ~ooc.rebuilt => ooc.docsAfter = ooc.docsBefore
        /\ ooc.rebuilt => ooc.docsAfter = 0
        /\ SentinelHash(indexDir.sentinel) = SCHEMA_HASH
        /\ ooc.calls > 1 => ~ooc.rebuilt

====
